---------------------------- MODULE Spec2Model ----------------------------
(***************************************************************************)
(* Model of the forensic intelligence pipeline of legal-core:              *)
(*   - ForensicMetadataExtractor.analyze_language_tone and                 *)
(*     create_forensic_timeline (backend/FORENSIC_METADATA_EXTRACTOR.py),  *)
(*   - NarrativeReconstructionEngine, RelationshipNetworkMapper and        *)
(*     PredictiveStrategySimulator (backend/NARRATIVE_INTELLIGENCE_SYSTEM) *)
(* Each component is an object of its own; every specification below       *)
(* drives one component and leaves the variables of the others at their    *)
(* constructed values.                                                     *)
(***************************************************************************)
EXTENDS Integers, Sequences, FiniteSets, TLC

VARIABLES
    content,            \* analyze_language_tone: the email body passed in
    tone,               \* analyze_language_tone: the value returned
    emails,             \* all_sources['emails'] given to the narrative engine
    documents,          \* all_sources['documents'] given to the narrative engine
    causal_heuristic,   \* which heuristic assess_causal_relationship computes
    timeline,           \* result of extract_comprehensive_timeline
    causal_map,         \* result of build_causal_relationship_map
    forensic_timeline,  \* ForensicMetadataExtractor.forensic_timeline
    timeline_analysis,  \* result of create_forensic_timeline
    relationship_data,  \* strategy simulator: the relationship input
    probability,        \* result of one calculate_success_probability call
    strategic,          \* result of simulate_legal_strategies
    relationship_graph, \* RelationshipNetworkMapper.relationship_graph
    comm_data,          \* communications of the latest map_relationship_networks
    legal_docs,         \* legal documents of the latest map_relationship_networks
    calls,              \* map_relationship_networks calls on this mapper so far
    network_analysis,   \* outcome of the latest map_relationship_networks
    eml_calls,          \* process_single_eml calls so far: file, database outcome
    clock,              \* datetime.now() of the forensic extractor's process
    extracted_metadata, \* ForensicMetadataExtractor.extracted_metadata
    email_metadata,     \* rows of the table email_metadata
    attachment_metadata,\* rows of the table attachment_metadata
    error_log,          \* what process_single_eml passed to logging.error
    narrative_threads,  \* result of identify_narrative_threads
    previous_run,       \* timeline and threads of the previous run on these inputs
    is_monitoring,      \* RealTimeMonitoringSystem.is_monitoring
    pc,                 \* where each monitoring thread and the consumer stands
    pending,            \* alerts a monitoring thread has still to put this round
    put_count,          \* alerts each monitoring thread has put so far
    alert_queue,        \* RealTimeMonitoringSystem.alert_queue
    monitoring_alerts,  \* rows of the table monitoring_alerts, in rowid order
    dispatched,         \* alerts a handler of execute_alert_action was called for
    notified,           \* alerts send_immediate_notification was called for
    source_items,       \* new items the external sources have still to deliver
    taken,              \* alerts alert_queue.get() has returned, in order
    alert_threads,      \* the process_alerts threads started so far, by start call
    monitoring_threads, \* RealTimeMonitoringSystem.monitoring_threads (its length)
    action_calls,       \* execute_alert_action calls so far: alert type, outcome
    case_text,          \* analyze_with_verification: the references of the text
    analysis,           \* analyze_with_verification: the value returned
    intelligence_data,  \* verify_all_legal_information: the content pieces
    overall_verification, \* verify_all_legal_information: the value returned
    gmail_intelligence, \* execute_complete_analysis: gmail stage output of the run
    complete_intelligence, \* MasterIntelligenceSystem.complete_intelligence
    executive_summary,  \* result of generate_executive_summary
    master_runs,        \* execute_complete_analysis calls so far
    msg_content,        \* jeff_psychological_analysis: the extracted body
    psychological,      \* jeff_psychological_analysis: the value returned
    comm_pass_graph,    \* the mapper's graph after the communication loop of the last build
    previous_call       \* the graph the call before a repeated call returned

toneVars == <<content, tone>>

narrativeVars == <<emails, documents, causal_heuristic, timeline, causal_map>>

forensicVars == <<forensic_timeline, timeline_analysis>>

strategyVars == <<relationship_data, probability, strategic>>

graphVars ==
    <<relationship_graph, comm_data, legal_docs, calls, network_analysis,
      comm_pass_graph, previous_call>>

extractionVars ==
    <<eml_calls, clock, extracted_metadata, email_metadata, attachment_metadata,
      error_log>>

threadVars == <<narrative_threads, previous_run>>

monitorVars ==
    <<is_monitoring, pc, pending, put_count, alert_queue, monitoring_alerts,
      dispatched, notified, source_items, taken>>

restartVars == <<alert_threads, monitoring_threads>>

dispatchVars == <<action_calls>>

verifyVars == <<case_text, analysis, intelligence_data, overall_verification>>

masterVars ==
    <<gmail_intelligence, complete_intelligence, executive_summary, master_runs>>

scoreVars == <<msg_content, psychological>>

vars ==
    <<toneVars, narrativeVars, forensicVars, strategyVars, graphVars,
      extractionVars, threadVars, monitorVars, restartVars, dispatchVars,
      verifyVars, masterVars, scoreVars>>

(***************************************************************************)
(* Generic helpers.                                                        *)
(***************************************************************************)
NoResult == "no_result"      \* the operation has not returned yet

Max(a, b) == IF a > b THEN a ELSE b

Min(a, b) == IF a < b THEN a ELSE b

\* All sequences over S of length 0..n.
SeqsUpTo(S, n) == UNION { [1..k -> S] : k \in 0..n }

(***************************************************************************)
(* Text: a Python str is a sequence of one-character strings.              *)
(***************************************************************************)
\* str.lower() on the characters the vocabulary uses.
LowerChar(c) ==
    CASE c = "M" -> "m"
      [] c = "U" -> "u"
      [] c = "S" -> "s"
      [] c = "T" -> "t"
      [] c = "P" -> "p"
      [] OTHER   -> c

Lower(s) == [i \in 1..Len(s) |-> LowerChar(s[i])]

\* Python's `pat in s` on strings: pat occurs as a contiguous substring.
IsSubstring(pat, s) ==
    \E i \in 0..(Len(s) - Len(pat)) : SubSeq(s, i + 1, i + Len(pat)) = pat

\* " ".join(words)
RECURSIVE JoinWords(_)
JoinWords(ws) ==
    IF Len(ws) = 0 THEN <<>>
    ELSE IF Len(ws) = 1 THEN ws[1]
    ELSE ws[1] \o <<" ">> \o JoinWords(Tail(ws))

(***************************************************************************)
(* ForensicMetadataExtractor.analyze_language_tone                         *)
(***************************************************************************)
aggressive_indicators ==
    { <<"m","u","s","t">>,
      <<"r","e","q","u","i","r","e">>,
      <<"d","e","m","a","n","d">>,
      <<"i","m","m","e","d","i","a","t","e","l","y">>,
      <<"f","a","i","l","u","r","e"," ","t","o">> }

passive_indicators ==
    { <<"p","l","e","a","s","e">>,
      <<"k","i","n","d","l","y">>,
      <<"w","o","u","l","d"," ","a","p","p","r","e","c","i","a","t","e">>,
      <<"i","f"," ","p","o","s","s","i","b","l","e">> }

professional_indicators ==
    { <<"p","u","r","s","u","a","n","t"," ","t","o">>,
      <<"i","n"," ","a","c","c","o","r","d","a","n","c","e"," ","w","i","t","h">>,
      <<"p","l","e","a","s","e"," ","f","i","n","d">>,
      <<"r","e","f","e","r","e","n","c","e">> }

\* sum(1 for indicator in indicators if indicator in content_lower)
IndicatorScore(indicators, text) ==
    Cardinality({ k \in indicators : IsSubstring(k, Lower(text)) })

aggressive_score(text) == IndicatorScore(aggressive_indicators, text)

passive_score(text) == IndicatorScore(passive_indicators, text)

professional_score(text) == IndicatorScore(professional_indicators, text)

\* Mutant: the first comparison written with >= (a tie goes to aggressive).
analyze_language_tone_tie_aggressive(text) ==
    LET a == aggressive_score(text)
        p == passive_score(text)
        r == professional_score(text)
    IN  IF a >= Max(p, r) /\ a > 0 THEN "aggressive"
        ELSE IF p > r THEN "passive"
        ELSE IF r > 0 THEN "professional"
        ELSE "neutral"

\* Mutant: the passive branch tested before the aggressive one.
analyze_language_tone_passive_first(text) ==
    LET a == aggressive_score(text)
        p == passive_score(text)
        r == professional_score(text)
    IN  IF p > r THEN "passive"
        ELSE IF a > Max(p, r) THEN "aggressive"
        ELSE IF r > 0 THEN "professional"
        ELSE "neutral"

analyze_language_tone(text) ==
    LET a == aggressive_score(text)
        p == passive_score(text)
        r == professional_score(text)
    IN  IF a > Max(p, r) THEN "aggressive"
        ELSE IF p > r THEN "passive"
        ELSE IF r > 0 THEN "professional"
        ELSE "neutral"

\* Words the modelled email bodies are made of (mixed case, words that
\* contain a keyword, and the two halves of the phrase "please find").
Vocabulary ==
    { <<"M","U","S","T">>,
      <<"d","e","m","a","n","d">>,
      <<"P","l","e","a","s","e">>,
      <<"k","i","n","d","l","y">>,
      <<"f","i","n","d">>,
      <<"r","e","f","e","r","e","n","c","e">>,
      <<"r","e","q","u","i","r","e","d">> }

MaxWords == 4

Bodies == { JoinWords(ws) : ws \in SeqsUpTo(Vocabulary, MaxWords) }

ToneInit ==
    /\ content \in Bodies
    /\ tone = NoResult

ToneIdle ==
    /\ content = <<>>
    /\ tone = NoResult

AnalyzeLanguageTone ==
    /\ tone = NoResult
    /\ tone' = analyze_language_tone(content)
    /\ UNCHANGED content
    /\ UNCHANGED <<narrativeVars, forensicVars, strategyVars, graphVars>>
    /\ UNCHANGED <<extractionVars, threadVars, monitorVars>>
    /\ UNCHANGED <<restartVars, dispatchVars, verifyVars, masterVars, scoreVars>>

(***************************************************************************)
(* Timestamps and Python's sort.                                           *)
(*                                                                         *)
(* A timestamp is None, a naive datetime or a timezone-aware datetime; t   *)
(* is the instant.  `<` is defined between two naive or between two aware  *)
(* datetimes and raises TypeError for every other pair.                    *)
(***************************************************************************)
NoneTS == [kind |-> "none", t |-> 0]

Naive(n) == [kind |-> "naive", t |-> n]

Aware(n) == [kind |-> "aware", t |-> n]

\* datetime.min, the key create_forensic_timeline gives an undated entry.
DatetimeMin == 0

Comparable(k1, k2) == k1.kind = k2.kind /\ k1.kind # "none"

\* list.sort / sorted raise TypeError as soon as two keys that cannot be
\* compared meet; with two or more keys every key is compared with another
\* one and the comparisons connect all keys, so the sort completes exactly
\* when all keys are pairwise comparable.
SortRaises(keys) ==
    \E i, j \in 1..Len(keys) : i # j /\ ~Comparable(keys[i], keys[j])

\* Mutant: insertion before the first element that is not smaller (equal
\* keys end up in reverse input order: an unstable sort).
RECURSIVE InsertIdxUnstable(_, _, _)
InsertIdxUnstable(i, sorted, keys) ==
    IF sorted = <<>> THEN <<i>>
    ELSE IF keys[i].t <= keys[Head(sorted)].t THEN <<i>> \o sorted
    ELSE <<Head(sorted)>> \o InsertIdxUnstable(i, Tail(sorted), keys)

\* Insert index i behind every index whose key is not greater.
RECURSIVE InsertIdx(_, _, _)
InsertIdx(i, sorted, keys) ==
    IF sorted = <<>> THEN <<i>>
    ELSE IF keys[i].t < keys[Head(sorted)].t THEN <<i>> \o sorted
    ELSE <<Head(sorted)>> \o InsertIdx(i, Tail(sorted), keys)

\* The stable ascending order of the indices 1..n by key.
RECURSIVE SortedIdx(_, _)
SortedIdx(n, keys) ==
    IF n = 0 THEN <<>> ELSE InsertIdx(n, SortedIdx(n - 1, keys), keys)

\* sorted(seq, key=...) when it does not raise.
PySorted(seq, keys) ==
    LET order == SortedIdx(Len(seq), keys)
    IN  [p \in 1..Len(seq) |-> seq[order[p]]]

(***************************************************************************)
(* NarrativeReconstructionEngine                                           *)
(***************************************************************************)
\* assess_event_importance is called but not defined in the repository; the
\* specification only says importance is one of low / medium / high.
assess_event_importance(email) == "medium"

\* The events of the emails, in input order.
EmailEvents(es) ==
    [i \in 1..Len(es) |->
        [ src          |-> <<"email", i>>,
          timestamp    |-> es[i].timestamp,
          type         |-> "communication",
          subtype      |-> "email",
          participants |-> <<es[i].sender, es[i].recipient>>,
          importance   |-> assess_event_importance(es[i]) ]]

\* The events of the legal documents, in input order; nows[i] is what
\* datetime.now() returns when document i carries no 'date'.
DocumentEvents(ds, nows) ==
    [i \in 1..Len(ds) |->
        [ src          |-> <<"document", i>>,
          timestamp    |-> IF ds[i].date.kind = "absent"
                           THEN Naive(nows[i]) ELSE ds[i].date,
          type         |-> "legal_action",
          subtype      |-> "unknown",
          participants |-> ds[i].parties,
          importance   |-> "high" ]]

TimestampsOf(events) == [i \in 1..Len(events) |-> events[i].timestamp]

\* Mutant: the timeline returned in collection order, never sorted.
extract_comprehensive_timeline_unsorted(es, ds, nows) ==
    LET unsorted == EmailEvents(es) \o DocumentEvents(ds, nows)
    IN  IF SortRaises(TimestampsOf(unsorted))
        THEN [status |-> "TypeError", events |-> <<>>]
        ELSE [status |-> "ok", events |-> unsorted]

\* extract_comprehensive_timeline: collect, then timeline.sort by timestamp.
extract_comprehensive_timeline(es, ds, nows) ==
    LET unsorted == EmailEvents(es) \o DocumentEvents(ds, nows)
    IN  IF SortRaises(TimestampsOf(unsorted))
        THEN [status |-> "TypeError", events |-> <<>>]
        ELSE [status |-> "ok",
              events |-> PySorted(unsorted, TimestampsOf(unsorted))]

\* The features the causal heuristic is computed from.
SharedParticipants(e1, e2) ==
    \E i \in 1..Len(e1.participants), j \in 1..Len(e2.participants) :
        e1.participants[i] = e2.participants[j]

TemporallyClose(e1, e2) ==
    /\ e1.timestamp.kind = e2.timestamp.kind
    /\ e1.timestamp.kind # "none"
    /\ e2.timestamp.t - e1.timestamp.t <= 1
    /\ e1.timestamp.t - e2.timestamp.t <= 1

\* assess_causal_relationship is called but not defined in the repository.
\* The specification describes a strength in [0, 1] computed from shared
\* participants and temporal proximity; the strength (in tenths) is looked
\* up in the heuristic table h.
assess_causal_relationship(h, previous_event, event) ==
    h[<<SharedParticipants(previous_event, event),
        TemporallyClose(previous_event, event)>>]

\* extract_causal_evidence is called but not defined in the repository.
extract_causal_evidence(previous_event, event) ==
    [ shared_participants |-> SharedParticipants(previous_event, event),
      temporally_close    |-> TemporallyClose(previous_event, event) ]

\* Threshold for a causal relationship, 0.3, in tenths.
CausalThreshold == 3

\* The look-back window of build_causal_relationship_map.
CausalWindow == 5

\* Mutant: the window starts at the first event (range(0, i)).
LookBackAll(i) == 1..(i - 1)

\* range(max(0, i-5), i), for the 1-based position i.
LookBack(i) == Max(1, i - CausalWindow)..(i - 1)

\* The links of effect i, for j ascending.
RECURSIVE LinksOf(_, _, _, _)
LinksOf(h, tl, i, js) ==
    IF js = {} THEN <<>>
    ELSE LET j == CHOOSE x \in js : \A y \in js : x <= y
             strength == assess_causal_relationship(h, tl[j], tl[i])
             rest == LinksOf(h, tl, i, js \ {j})
         IN  IF strength > CausalThreshold
             THEN << [ cause_event     |-> tl[j],
                       effect_event    |-> tl[i],
                       causal_strength |-> strength,
                       evidence        |-> extract_causal_evidence(tl[j], tl[i]) ] >>
                  \o rest
             ELSE rest

RECURSIVE CausalLinksUpTo(_, _, _)
CausalLinksUpTo(h, tl, n) ==
    IF n = 0 THEN <<>>
    ELSE CausalLinksUpTo(h, tl, n - 1) \o LinksOf(h, tl, n, LookBack(n))

build_causal_relationship_map(h, tl) == CausalLinksUpTo(h, tl, Len(tl))

\* Result records: status is "no_result" until the operation has returned,
\* then "ok" or the name of the exception that left it.
NoTimeline == [status |-> NoResult, events |-> <<>>]

NoCausalMap == [status |-> NoResult, links |-> <<>>]

\* Bounds of the narrative inputs.
MaxEmails == 2

MaxDocuments == 1

MaxTimeline == 7

EmailTimes == { NoneTS, Naive(1), Naive(2) }

EmailRoutes == { <<"a", "b">>, <<"c", "d">> }

EmailInputs ==
    { [timestamp |-> ts, sender |-> r[1], recipient |-> r[2]] :
        ts \in EmailTimes, r \in EmailRoutes }

\* 'date' missing from the document, None, or a datetime.
DocumentDates == { [kind |-> "absent", t |-> 0], NoneTS, Naive(1) }

DocumentInputs ==
    { [date |-> d, parties |-> ps] :
        d \in DocumentDates, ps \in { <<>>, <<"a", "c">> } }

\* What datetime.now() may return during one run.
NowTimes == { 2, 3 }

\* The heuristics assess_causal_relationship may compute: a strength at the
\* threshold (0.3) or above it (0.4) for each combination of features.
CausalHeuristics == [ BOOLEAN \X BOOLEAN -> { 3, 4 } ]

NarrativeIdle ==
    /\ emails = <<>>
    /\ documents = <<>>
    /\ causal_heuristic \in { [f \in BOOLEAN \X BOOLEAN |-> 4] }
    /\ timeline = NoTimeline
    /\ causal_map = NoCausalMap

NarrativeInit ==
    /\ emails \in SeqsUpTo(EmailInputs, MaxEmails)
    /\ documents \in SeqsUpTo(DocumentInputs, MaxDocuments)
    /\ causal_heuristic \in CausalHeuristics
    /\ timeline = NoTimeline
    /\ causal_map = NoCausalMap

\* A timeline handed to build_causal_relationship_map directly: events in
\* non-decreasing timestamp order, as extract_comprehensive_timeline leaves
\* them.
GivenEvents(n) ==
    { [i \in 1..n |->
          [ src          |-> <<"event", i>>,
            timestamp    |-> Naive(IF i <= k THEN 1 ELSE 3),
            type         |-> "communication",
            subtype      |-> "email",
            participants |-> ps[i],
            importance   |-> "medium" ]] :
        k \in 0..n, ps \in [1..n -> EmailRoutes] }

CausalInit ==
    /\ emails = <<>>
    /\ documents = <<>>
    /\ causal_heuristic \in CausalHeuristics
    /\ \E n \in 0..MaxTimeline :
          timeline \in { [status |-> "ok", events |-> ev] : ev \in GivenEvents(n) }
    /\ causal_map = NoCausalMap

\* Non-decreasing sequences of clock readings, one per document.
NowReadings(n) ==
    { f \in [1..n -> NowTimes] : \A i, j \in 1..n : i <= j => f[i] <= f[j] }

\* The latest clock reading taken by the previous run on these sources
\* (0 when there was none): the clock does not run backwards.
ClockFloor ==
    LET readings == { previous_run.timeline.events[p].timestamp.t :
                        p \in { q \in 1..Len(previous_run.timeline.events) :
                                  LET src == previous_run.timeline.events[q].src
                                  IN  /\ src[1] = "document"
                                      /\ documents[src[2]].date.kind = "absent" } }
    IN  IF readings = {} THEN 0
        ELSE CHOOSE r \in readings : \A o \in readings : o <= r

ExtractComprehensiveTimeline ==
    /\ timeline.status = NoResult
    /\ \E nows \in NowReadings(Len(documents)) :
          /\ \A i \in 1..Len(documents) : nows[i] >= ClockFloor
          /\ timeline' = extract_comprehensive_timeline(emails, documents, nows)
    /\ UNCHANGED <<emails, documents, causal_heuristic, causal_map>>
    /\ UNCHANGED <<toneVars, forensicVars, strategyVars, graphVars>>
    /\ UNCHANGED <<extractionVars, threadVars, monitorVars>>
    /\ UNCHANGED <<restartVars, dispatchVars, verifyVars, masterVars, scoreVars>>

\* reconstruct_complete_narrative reaches build_causal_relationship_map only
\* when extract_comprehensive_timeline has returned.
BuildCausalRelationshipMap ==
    /\ timeline.status = "ok"
    /\ causal_map.status = NoResult
    /\ causal_map' =
          [ status |-> "ok",
            links  |-> build_causal_relationship_map(causal_heuristic, timeline.events) ]
    /\ UNCHANGED <<emails, documents, causal_heuristic, timeline>>
    /\ UNCHANGED <<toneVars, forensicVars, strategyVars, graphVars>>
    /\ UNCHANGED <<extractionVars, threadVars, monitorVars>>
    /\ UNCHANGED <<restartVars, dispatchVars, verifyVars, masterVars, scoreVars>>

(***************************************************************************)
(* ForensicMetadataExtractor.create_forensic_timeline                      *)
(***************************************************************************)
\* key=lambda x: x['timestamp'] if x['timestamp'] else datetime.min
ForensicKey(entry) ==
    IF entry.timestamp.kind = "none" THEN Naive(DatetimeMin) ELSE entry.timestamp

ForensicKeys(ft) == [i \in 1..Len(ft) |-> ForensicKey(ft[i])]

\* analyze_timeline_gaps is called but not defined in the repository; the
\* specification describes the maximum gap between consecutive events.
analyze_timeline_gaps(tl) ==
    LET gaps == { tl[i + 1].timestamp.t - tl[i].timestamp.t :
                    i \in { x \in 1..(Len(tl) - 1) :
                              /\ tl[x].timestamp.kind # "none"
                              /\ tl[x + 1].timestamp.kind # "none" } }
    IN  IF gaps = {} THEN 0 ELSE CHOOSE g \in gaps : \A o \in gaps : o <= g

NoTimelineAnalysis ==
    [ status |-> NoResult, total_events |-> 0, start |-> NoneTS, end |-> NoneTS,
      events |-> <<>>, gap_analysis |-> 0 ]

create_forensic_timeline(ft) ==
    IF SortRaises(ForensicKeys(ft))
    THEN [NoTimelineAnalysis EXCEPT !.status = "TypeError"]
    ELSE LET tl == PySorted(ft, ForensicKeys(ft))
         IN  [ status       |-> "ok",
               total_events |-> Len(tl),
               start        |-> IF Len(tl) > 0 THEN tl[1].timestamp ELSE NoneTS,
               end          |-> IF Len(tl) > 0 THEN tl[Len(tl)].timestamp ELSE NoneTS,
               events       |-> tl,
               gap_analysis |-> analyze_timeline_gaps(tl) ]

MaxForensicEntries == 3

\* date_parsed of a processed message: None without a Date header, aware
\* for a Date with a numeric zone, naive for a Date with zone -0000.
ForensicTimes == { NoneTS, Naive(1), Naive(2), Aware(1), Aware(2) }

\* forensic_timeline after the messages 1..n have been processed.
ForensicTimelines ==
    UNION { { [i \in 1..n |-> [timestamp |-> ts[i], metadata_hash |-> i]] :
                ts \in [1..n -> ForensicTimes] } : n \in 0..MaxForensicEntries }

ForensicIdle ==
    /\ forensic_timeline = <<>>
    /\ timeline_analysis = NoTimelineAnalysis

ForensicInit ==
    /\ forensic_timeline \in ForensicTimelines
    /\ timeline_analysis = NoTimelineAnalysis

CreateForensicTimeline ==
    /\ timeline_analysis.status = NoResult
    /\ timeline_analysis' = create_forensic_timeline(forensic_timeline)
    /\ UNCHANGED forensic_timeline
    /\ UNCHANGED <<toneVars, narrativeVars, strategyVars, graphVars>>
    /\ UNCHANGED <<extractionVars, threadVars, monitorVars>>
    /\ UNCHANGED <<restartVars, dispatchVars, verifyVars, masterVars, scoreVars>>

(***************************************************************************)
(* PredictiveStrategySimulator                                             *)
(*                                                                         *)
(* Probabilities are in hundredths (0.85 is 85).  The floats the code      *)
(* computes differ from these by rounding in the last bit only; no two of  *)
(* the values compared below are that close.                               *)
(***************************************************************************)
\* The fixed catalog, in declaration order.
strategies ==
    << "aggressive_litigation", "collaborative_negotiation", "mediation_approach",
       "regulatory_escalation", "public_pressure", "settlement_negotiation" >>

\* base_probabilities.get(strategy, 0.5)
base_probabilities(strategy) ==
    CASE strategy = "aggressive_litigation"     -> 60
      [] strategy = "collaborative_negotiation" -> 75
      [] strategy = "mediation_approach"        -> 80
      [] strategy = "regulatory_escalation"     -> 70
      [] strategy = "public_pressure"           -> 50
      [] strategy = "settlement_negotiation"    -> 85
      [] OTHER                                  -> 50

\* A value of relationship_data: a mapping with or without the key
\* 'overall_power_score', or an object without a get method (the DiGraph
\* that map_relationship_networks puts under 'relationship_graph').
IsMapping(r) == r.kind = "mapping"

\* r.get('overall_power_score', 0.5)
PowerScoreOf(r) == IF r.has_score THEN r.score ELSE 50

RECURSIVE SumScores(_)
SumScores(rd) ==
    IF rd = <<>> THEN 0 ELSE PowerScoreOf(Head(rd)) + SumScores(Tail(rd))

\* np.mean(scores) > 0.7, without the division.
StrongRelationships(rd) == SumScores(rd) > 70 * Len(rd)

\* adjustments: 0.1 when the relationship data is non-empty and strong.
Adjustments(rd) == IF rd # <<>> /\ StrongRelationships(rd) THEN 10 ELSE 0

\* r.get raises AttributeError on the first value that is no mapping.
AdjustmentsRaise(rd) == \E i \in 1..Len(rd) : ~IsMapping(rd[i])

NoProbability == [status |-> NoResult, strategy |-> "", value |-> 0]

\* Mutant: an adjustment of 0.3 returned without the min(1.0, ...) clamp.
calculate_success_probability_unclamped(strategy, rd) ==
    IF AdjustmentsRaise(rd)
    THEN [status |-> "AttributeError", strategy |-> strategy, value |-> 0]
    ELSE [ status   |-> "ok",
           strategy |-> strategy,
           value    |-> base_probabilities(strategy) + 3 * Adjustments(rd) ]

calculate_success_probability(strategy, rd) ==
    IF AdjustmentsRaise(rd)
    THEN [status |-> "AttributeError", strategy |-> strategy, value |-> 0]
    ELSE [ status   |-> "ok",
           strategy |-> strategy,
           value    |-> Min(100, base_probabilities(strategy) + Adjustments(rd)) ]

\* rank_strategies is called but not defined in the repository.  The
\* specification: descending by success probability, ties broken by
\* ascending catalog-declaration order; line 358 reads the key 'strategy'
\* of the first entry.  sims is simulation_results in insertion order.
RECURSIVE InsertRanked(_, _)
InsertRanked(e, ranked) ==
    IF ranked = <<>> THEN <<e>>
    ELSE IF e.success_probability > Head(ranked).success_probability
         THEN <<e>> \o ranked
         ELSE <<Head(ranked)>> \o InsertRanked(e, Tail(ranked))

RECURSIVE rank_strategies(_)
rank_strategies(sims) ==
    IF sims = <<>> THEN <<>>
    ELSE LET last == sims[Len(sims)]
         IN  InsertRanked(
                 [ strategy            |-> last.strategy_name,
                   success_probability |-> last.success_probability ],
                 rank_strategies(SubSeq(sims, 1, Len(sims) - 1)))

NoStrategic == [status |-> NoResult, simulations |-> <<>>, ranked_strategies |-> <<>>]

\* The simulations of the first n catalog entries, in catalog order.  The
\* other fields of a simulation (risk_assessment, expected_timeline, ...)
\* come from methods the repository does not define and are not read here.
Simulations(rd, n) ==
    [i \in 1..n |->
        [ strategy_name       |-> strategies[i],
          success_probability |-> calculate_success_probability(strategies[i], rd).value ]]

\* Mutant: the loop stops one catalog entry short.
simulate_legal_strategies_short(rd) ==
    IF AdjustmentsRaise(rd)
    THEN [NoStrategic EXCEPT !.status = "AttributeError"]
    ELSE [ status            |-> "ok",
           simulations       |-> Simulations(rd, Len(strategies) - 1),
           ranked_strategies |-> rank_strategies(Simulations(rd, Len(strategies) - 1)) ]

\* simulate_legal_strategies: the first calculate_success_probability call
\* that raises leaves the method.
simulate_legal_strategies(rd) ==
    IF AdjustmentsRaise(rd)
    THEN [NoStrategic EXCEPT !.status = "AttributeError"]
    ELSE [ status            |-> "ok",
           simulations       |-> Simulations(rd, Len(strategies)),
           ranked_strategies |-> rank_strategies(Simulations(rd, Len(strategies))) ]

MaxRelationships == 3

RelationshipValues ==
    { [kind |-> "object", has_score |-> FALSE, score |-> 0],
      [kind |-> "mapping", has_score |-> FALSE, score |-> 0] }
    \cup { [kind |-> "mapping", has_score |-> TRUE, score |-> sc] : sc \in {0, 70, 100} }

\* Strategy names passed to calculate_success_probability: the catalog and
\* a name outside it.
StrategyNames == { strategies[i] : i \in 1..Len(strategies) } \cup { "unknown_strategy" }

StrategyIdle ==
    /\ relationship_data = <<>>
    /\ probability = NoProbability
    /\ strategic = NoStrategic

StrategyInit ==
    /\ relationship_data \in SeqsUpTo(RelationshipValues, MaxRelationships)
    /\ probability = NoProbability
    /\ strategic = NoStrategic

CalculateSuccessProbability ==
    /\ probability.status = NoResult
    /\ \E strategy \in StrategyNames :
          probability' = calculate_success_probability(strategy, relationship_data)
    /\ UNCHANGED <<relationship_data, strategic>>
    /\ UNCHANGED <<toneVars, narrativeVars, forensicVars, graphVars>>
    /\ UNCHANGED <<extractionVars, threadVars, monitorVars>>
    /\ UNCHANGED <<restartVars, dispatchVars, verifyVars, masterVars, scoreVars>>

SimulateLegalStrategies ==
    /\ strategic.status = NoResult
    /\ strategic' = simulate_legal_strategies(relationship_data)
    /\ UNCHANGED <<relationship_data, probability>>
    /\ UNCHANGED <<toneVars, narrativeVars, forensicVars, graphVars>>
    /\ UNCHANGED <<extractionVars, threadVars, monitorVars>>
    /\ UNCHANGED <<restartVars, dispatchVars, verifyVars, masterVars, scoreVars>>

(***************************************************************************)
(* RelationshipNetworkMapper                                               *)
(*                                                                         *)
(* The graph is a networkx DiGraph: a set of nodes and, per ordered pair   *)
(* of nodes, at most one edge with the attributes weight and type.         *)
(***************************************************************************)
EmptyGraph == [nodes |-> {}, edges |-> {}]

\* Mutant: an undirected graph (nx.Graph), where u-v and v-u are one edge.
EdgeKeyUndirected(u, v) == IF u \in {"a"} \/ v \notin {"a"} THEN <<u, v>> ELSE <<v, u>>

\* The key an edge is stored under in a DiGraph: the ordered pair.
EdgeKey(u, v) == <<u, v>>

has_edge(g, u, v) == \E e \in g.edges : e.key = EdgeKey(u, v)

\* add_edge(u, v, weight=w, type=t): adds the nodes, creates the edge or
\* overwrites the attributes of the existing one.
add_edge(g, u, v, w, t) ==
    [ nodes |-> g.nodes \cup {u, v},
      edges |-> { e \in g.edges : e.key # EdgeKey(u, v) }
                \cup { [key |-> EdgeKey(u, v), weight |-> w, type |-> t] } ]

\* relationship_graph[u][v]['weight'] += 1
IncrementWeight(g, u, v) ==
    [ g EXCEPT !.edges =
        { IF e.key = EdgeKey(u, v) THEN [e EXCEPT !.weight = e.weight + 1] ELSE e :
            e \in g.edges } ]

\* The weight add_edge gives a legal-document relationship.
LegalWeight == 5

\* One communication of the first loop.
AddCommunication(g, comm) ==
    IF comm.sender # "" /\ comm.recipient # ""
    THEN IF has_edge(g, comm.sender, comm.recipient)
         THEN IncrementWeight(g, comm.sender, comm.recipient)
         ELSE add_edge(g, comm.sender, comm.recipient, 1, "communication")
    ELSE g

RECURSIVE AddCommunications(_, _)
AddCommunications(g, comms) ==
    IF comms = <<>> THEN g
    ELSE AddCommunications(AddCommunication(g, Head(comms)), Tail(comms))

\* for party2 in parties[i+1:]: add_edge(party1, party2, weight=5, type='legal')
RECURSIVE AddPartyPairs(_, _, _)
AddPartyPairs(g, party1, others) ==
    IF others = <<>> THEN g
    ELSE AddPartyPairs(add_edge(g, party1, Head(others), LegalWeight, "legal"),
                       party1, Tail(others))

RECURSIVE AddParties(_, _)
AddParties(g, parties) ==
    IF parties = <<>> THEN g
    ELSE AddParties(AddPartyPairs(g, Head(parties), Tail(parties)), Tail(parties))

RECURSIVE AddLegalDocuments(_, _)
AddLegalDocuments(g, docs) ==
    IF docs = <<>> THEN g
    ELSE AddLegalDocuments(AddParties(g, Head(docs).parties), Tail(docs))

\* build_relationship_graph on the mapper's graph g.  comms is comm_data
\* flattened: the communications of all contacts in iteration order.
build_relationship_graph(g, comms, docs) ==
    AddLegalDocuments(AddCommunications(g, comms), docs)

\* The centralities networkx computes, in thousandths, for the graphs of
\* the model, which have at most two nodes.
\* nx.betweenness_centrality: no node lies between two others.
betweenness_centrality(g, u) == 0

\* nx.closeness_centrality of a DiGraph uses the distances to u: 1 when the
\* other node has an edge to u, else 0.
closeness_centrality(g, u) ==
    IF \E v \in g.nodes : v # u /\ has_edge(g, v, u) THEN 1000 ELSE 0

\* nx.eigenvector_centrality(G, max_iter=1000) raises NetworkXPointlessConcept
\* on the null graph.  On every graph with one or two nodes the power
\* iteration on A + I meets the tolerance within the 1000 iterations
\* (non-convergence needs three nodes and self-loops); the values are
\* those the iteration stops at.
EigenvectorRaises(g) == g.nodes = {}

eigenvector_centrality(g, u) ==
    LET others == g.nodes \ {u}
        su == has_edge(g, u, u)
    IN  IF others = {} THEN 1000
        ELSE LET v  == CHOOSE x \in others : TRUE
                 sv == has_edge(g, v, v)
                 uv == has_edge(g, u, v)
                 vu == has_edge(g, v, u)
             IN  CASE uv /\ vu /\ su = sv       -> 707
                   [] uv /\ vu /\ su /\ ~sv     -> 851
                   [] uv /\ vu /\ ~su /\ sv     -> 526
                   [] uv /\ ~vu /\ ~su /\ ~sv   -> 1
                   [] uv /\ ~vu /\ ~su /\ sv    -> 0
                   [] uv /\ ~vu /\ su /\ ~sv    -> 707
                   [] uv /\ ~vu /\ su /\ sv     -> 2
                   [] ~uv /\ vu /\ ~sv /\ ~su   -> 1000
                   [] ~uv /\ vu /\ ~sv /\ su    -> 1000
                   [] ~uv /\ vu /\ sv /\ ~su    -> 707
                   [] ~uv /\ vu /\ sv /\ su     -> 1000
                   [] OTHER                       -> 707

NoNetworkAnalysis == [status |-> NoResult, power_dynamics |-> <<>>]

\* calculate_power_dynamics: the three centralities and their mean.
calculate_power_dynamics(g) ==
    IF EigenvectorRaises(g)
    THEN [status |-> "NetworkXPointlessConcept", power_dynamics |-> <<>>]
    ELSE [ status |-> "ok",
           power_dynamics |->
             [ node \in g.nodes |->
                 [ betweenness_centrality |-> betweenness_centrality(g, node),
                   closeness_centrality   |-> closeness_centrality(g, node),
                   eigenvector_centrality |-> eigenvector_centrality(g, node),
                   overall_power_score    |->
                       ( betweenness_centrality(g, node)
                       + closeness_centrality(g, node)
                       + eigenvector_centrality(g, node) ) \div 3 ]] ]

\* Bounds of the mapper's inputs.
MaxComms == 2

MaxLegalDocs == 1

MaxCalls == 2

\* comm.get('sender', ''), comm.get('recipient', '') of a communication.
CommInputs ==
    { [sender |-> p[1], recipient |-> p[2]] :
        p \in { <<"a", "b">>, <<"b", "a">>, <<"", "b">>, <<"a", "">> } }

LegalDocInputs == { [parties |-> ps] : ps \in { <<"a", "b">> } }

\* No call has been repeated.
NoPreviousCall == [status |-> NoResult, graph |-> EmptyGraph]

GraphInit ==
    /\ relationship_graph = EmptyGraph
    /\ comm_data = <<>>
    /\ legal_docs = <<>>
    /\ calls = 0
    /\ network_analysis = NoNetworkAnalysis
    /\ comm_pass_graph = EmptyGraph
    /\ previous_call = NoPreviousCall

\* map_relationship_networks: build_relationship_graph on the graph the
\* mapper already holds, then calculate_power_dynamics; an exception of the
\* latter leaves the graph as built.  The steps after it
\* (map_influence_pathways, ...) are not defined in the repository.
MapRelationshipNetworks ==
    /\ calls < MaxCalls
    /\ \E comms \in SeqsUpTo(CommInputs, MaxComms),
          docs \in SeqsUpTo(LegalDocInputs, MaxLegalDocs) :
          LET g == build_relationship_graph(relationship_graph, comms, docs)
          IN  /\ relationship_graph' = g
              /\ comm_data' = comms
              /\ legal_docs' = docs
              /\ network_analysis' = calculate_power_dynamics(g)
              /\ comm_pass_graph' = AddCommunications(relationship_graph, comms)
    /\ calls' = calls + 1
    /\ previous_call' = NoPreviousCall
    /\ UNCHANGED <<toneVars, narrativeVars, forensicVars, strategyVars>>
    /\ UNCHANGED <<extractionVars, threadVars, monitorVars>>
    /\ UNCHANGED <<restartVars, dispatchVars, verifyVars, masterVars, scoreVars>>

\* map_relationship_networks called again on the same mapper with the
\* inputs of the call before.  self.relationship_graph is created in
\* __init__ and build_relationship_graph works on it as it stands.
MapRelationshipNetworksAgain ==
    /\ calls >= 1
    /\ calls < MaxCalls
    /\ LET g == build_relationship_graph(relationship_graph, comm_data, legal_docs)
       IN  /\ relationship_graph' = g
           /\ network_analysis' = calculate_power_dynamics(g)
           /\ comm_pass_graph' = AddCommunications(relationship_graph, comm_data)
    /\ previous_call' = [status |-> "ok", graph |-> relationship_graph]
    /\ calls' = calls + 1
    /\ UNCHANGED <<comm_data, legal_docs>>
    /\ UNCHANGED <<toneVars, narrativeVars, forensicVars, strategyVars>>
    /\ UNCHANGED <<extractionVars, threadVars, monitorVars>>
    /\ UNCHANGED <<restartVars, dispatchVars, verifyVars, masterVars, scoreVars>>

(***************************************************************************)
(* ForensicMetadataExtractor.process_single_eml and the forensic database   *)
(*                                                                         *)
(* An .eml file is a path that can or cannot be read and, when it can, the *)
(* message its bytes parse to (email.message_from_bytes with               *)
(* policy=default records defects and does not raise).  The Date header is *)
(* absent, present but not a date, or a date with or without a numeric     *)
(* zone; a missing Message-ID header reads as ''.                          *)
(***************************************************************************)
DateAbsent == [kind |-> "absent", t |-> 0]

DateInvalid == [kind |-> "invalid", t |-> 0]

DateHeader(kind, n) == [kind |-> kind, t |-> n]

NoMessage ==
    [ message_id |-> "", date |-> DateAbsent, from |-> "", to |-> <<>>,
      subject |-> "", references |-> <<>>, body |-> <<>>, attachments |-> <<>> ]

\* The files of the evidence directory.
EmlFiles ==
    { [ path |-> "a.eml", readable |-> TRUE,
        msg  |-> [ message_id  |-> "<m1>",
                   date        |-> DateHeader("aware", 1),
                   from        |-> "a",
                   to          |-> <<"b">>,
                   subject     |-> "Notice",
                   references  |-> <<>>,
                   body        |-> <<"M","U","S","T">>,
                   attachments |-> << [ filename  |-> "lease.txt",
                                        mime_type |-> "text/plain",
                                        content   |-> <<"x","y">> ] >> ] ],
      [ path |-> "b.eml", readable |-> TRUE,
        msg  |-> [ message_id  |-> "",
                   date        |-> DateHeader("naive", 2),
                   from        |-> "b",
                   to          |-> <<"a">>,
                   subject     |-> "Re: Notice",
                   references  |-> <<"<m1>">>,
                   body        |-> <<"k","i","n","d","l","y">>,
                   attachments |-> <<>> ] ],
      [ path |-> "c.eml", readable |-> TRUE,
        msg  |-> [ message_id  |-> "",
                   date        |-> DateAbsent,
                   from        |-> "a",
                   to          |-> <<"b", "c">>,
                   subject     |-> "Repairs",
                   references  |-> <<>>,
                   body        |-> <<"f","i","n","d">>,
                   attachments |-> <<>> ] ],
      [ path |-> "d.eml", readable |-> TRUE,
        msg  |-> [ message_id  |-> "<m2>",
                   date        |-> DateInvalid,
                   from        |-> "c",
                   to          |-> <<"a">>,
                   subject     |-> "Hearing",
                   references  |-> <<>>,
                   body        |-> <<"d","e","m","a","n","d">>,
                   attachments |-> <<>> ] ],
      [ path |-> "e.eml", readable |-> FALSE, msg |-> NoMessage ] }

\* hashlib.sha256(...).hexdigest(): the digest is determined by the data
\* hashed and no two different data of the model share a digest.
sha256(data) == <<"sha256", data>>

\* email.utils.parsedate_to_datetime on a Date value that is a date.
parsedate_to_datetime(date) ==
    IF date.kind = "aware" THEN Aware(date.t) ELSE Naive(date.t)

NoMetadata ==
    [ message_id |-> "", date_rfc2822 |-> DateAbsent, date_parsed |-> NoneTS,
      sender_email |-> "", recipients_to |-> <<>>, subject |-> "",
      references |-> <<>>, message_hash |-> <<>>, extraction_timestamp |-> 0 ]

\* Mutant: the digest taken over the message together with the time of
\* extraction.
extract_complete_email_metadata_stamped(msg, now) ==
    IF msg.date.kind = "invalid"
    THEN [status |-> "ValueError", metadata |-> NoMetadata]
    ELSE [ status   |-> "ok",
           metadata |->
             [ message_id           |-> msg.message_id,
               date_rfc2822         |-> msg.date,
               date_parsed          |-> IF msg.date.kind = "absent" THEN NoneTS
                                        ELSE parsedate_to_datetime(msg.date),
               sender_email         |-> msg.from,
               recipients_to        |-> msg.to,
               subject              |-> msg.subject,
               references           |-> msg.references,
               message_hash         |-> sha256(<<msg, now>>),
               extraction_timestamp |-> now ] ]

\* extract_complete_email_metadata: the headers as msg.get(name, '') reads
\* them (the headers the model does not carry are read the same way),
\* date_parsed, the digest of str(msg), and the time of extraction.
\* parsedate_to_datetime raises ValueError on a Date that is no date.
extract_complete_email_metadata(msg, now) ==
    IF msg.date.kind = "invalid"
    THEN [status |-> "ValueError", metadata |-> NoMetadata]
    ELSE [ status   |-> "ok",
           metadata |->
             [ message_id           |-> msg.message_id,
               date_rfc2822         |-> msg.date,
               date_parsed          |-> IF msg.date.kind = "absent" THEN NoneTS
                                        ELSE parsedate_to_datetime(msg.date),
               sender_email         |-> msg.from,
               recipients_to        |-> msg.to,
               subject              |-> msg.subject,
               references           |-> msg.references,
               message_hash         |-> sha256(msg),
               extraction_timestamp |-> now ] ]

\* extract_attachment_metadata: one entry per attachment part.
extract_attachment_metadata(msg) ==
    [ i \in 1..Len(msg.attachments) |->
        [ filename     |-> msg.attachments[i].filename,
          mime_type    |-> msg.attachments[i].mime_type,
          file_size    |-> Len(msg.attachments[i].content),
          content_hash |-> sha256(msg.attachments[i].content) ] ]

\* analyze_email_behavior, the entries computed by code of the repository:
\* thread_depth, language_tone, and whether timestamp_after_hours is set
\* (only when date_parsed is not None; the hour is not modelled).  The
\* helpers calculate_sentiment_score, detect_manipulation_patterns and
\* analyze_urgency_patterns are called but not defined in the repository;
\* they are taken to return without touching the extractor.
analyze_email_behavior(msg, metadata) ==
    [ thread_depth              |-> Len(metadata.references),
      has_timestamp_after_hours |-> metadata.date_parsed.kind # "none",
      language_tone             |-> analyze_language_tone(msg.body) ]

\* The rowid SQLite gives an inserted row of a table with INTEGER PRIMARY
\* KEY: one more than the largest rowid in the table at that moment.
RowIds(table) == { r.id : r \in table }

LargestRowId(table) ==
    IF table = {} THEN 0
    ELSE CHOOSE n \in RowIds(table) : \A o \in RowIds(table) : o <= n

\* INSERT OR REPLACE INTO email_metadata: message_id is UNIQUE, so the row
\* that holds the same message_id (the empty string included) is deleted
\* and the new row takes a fresh rowid.
InsertOrReplaceEmail(table, metadata) ==
    { r \in table : r.message_id # metadata.message_id }
    \cup { [ id                   |-> LargestRowId(table) + 1,
             message_id           |-> metadata.message_id,
             date_parsed          |-> metadata.date_parsed,
             sender_email         |-> metadata.sender_email,
             subject              |-> metadata.subject,
             message_hash         |-> metadata.message_hash,
             extraction_timestamp |-> metadata.extraction_timestamp ] }

\* INSERT INTO attachment_metadata, once per attachment; email_id is
\* cursor.lastrowid of the email row.
InsertAttachments(table, email_id, attachments) ==
    table \cup
    { [ id           |-> LargestRowId(table) + i,
        email_id     |-> email_id,
        filename     |-> attachments[i].filename,
        mime_type    |-> attachments[i].mime_type,
        file_size    |-> attachments[i].file_size,
        content_hash |-> attachments[i].content_hash ] :
        i \in 1..Len(attachments) }

\* store_email_metadata, one transaction on the two tables.
store_email_metadata(db, metadata, attachments) ==
    [ email_metadata      |-> InsertOrReplaceEmail(db.email_metadata, metadata),
      attachment_metadata |->
          InsertAttachments(db.attachment_metadata,
                            LargestRowId(db.email_metadata) + 1, attachments) ]

\* The except branch of process_single_eml: the error is logged and
\* nothing else changes.
Rejected(self, path, exception) ==
    [ self EXCEPT !.error_log = Append(@, [path |-> path, error |-> exception]),
                  !.outcome = exception ]

\* Mutant: the entry appended to extracted_metadata before the database
\* write, so that a failed write leaves it behind.
process_single_eml_append_first(self, file, db_ok, now) ==
    IF ~file.readable THEN Rejected(self, file.path, "FileNotFoundError")
    ELSE
    LET extracted == extract_complete_email_metadata(file.msg, now)
        metadata == extracted.metadata
        attachments == extract_attachment_metadata(file.msg)
        behavioral == analyze_email_behavior(file.msg, metadata)
        stored == store_email_metadata(
                      [ email_metadata      |-> self.email_metadata,
                        attachment_metadata |-> self.attachment_metadata ],
                      metadata, attachments)
        entry == [ metadata    |-> metadata,
                   attachments |-> attachments,
                   behavioral  |-> behavioral ]
    IN  IF extracted.status # "ok"
        THEN Rejected(self, file.path, extracted.status)
        ELSE IF ~db_ok
        THEN Rejected([self EXCEPT !.extracted_metadata = Append(@, entry)],
                      file.path, "OperationalError")
        ELSE [ self EXCEPT
                 !.outcome = "ok",
                 !.email_metadata = stored.email_metadata,
                 !.attachment_metadata = stored.attachment_metadata,
                 !.extracted_metadata = Append(@, entry),
                 !.forensic_timeline =
                     Append(@, [ timestamp     |-> metadata.date_parsed,
                                 event_type    |-> "email_communication",
                                 participants  |-> <<metadata.sender_email>>
                                                     \o metadata.recipients_to,
                                 subject       |-> metadata.subject,
                                 metadata_hash |-> metadata.message_hash ]) ]

\* process_single_eml.  Everything runs inside one try: open() raises on
\* an unreadable path, extract_complete_email_metadata on an unparseable
\* Date, store_email_metadata when SQLite refuses the write (db_ok false;
\* the transaction is rolled back); each exception is logged and the
\* method returns.  Only after the write are the two lists appended to.
process_single_eml(self, file, db_ok, now) ==
    IF ~file.readable THEN Rejected(self, file.path, "FileNotFoundError")
    ELSE
    LET extracted == extract_complete_email_metadata(file.msg, now)
        metadata == extracted.metadata
        attachments == extract_attachment_metadata(file.msg)
        behavioral == analyze_email_behavior(file.msg, metadata)
        stored == store_email_metadata(
                      [ email_metadata      |-> self.email_metadata,
                        attachment_metadata |-> self.attachment_metadata ],
                      metadata, attachments)
        entry == [ metadata    |-> metadata,
                   attachments |-> attachments,
                   behavioral  |-> behavioral ]
    IN  IF extracted.status # "ok"
        THEN Rejected(self, file.path, extracted.status)
        ELSE IF ~db_ok
        THEN Rejected(self, file.path, "OperationalError")
        ELSE [ self EXCEPT
                 !.outcome = "ok",
                 !.email_metadata = stored.email_metadata,
                 !.attachment_metadata = stored.attachment_metadata,
                 !.extracted_metadata = Append(@, entry),
                 !.forensic_timeline =
                     Append(@, [ timestamp     |-> metadata.date_parsed,
                                 event_type    |-> "email_communication",
                                 participants  |-> <<metadata.sender_email>>
                                                     \o metadata.recipients_to,
                                 subject       |-> metadata.subject,
                                 metadata_hash |-> metadata.message_hash ]) ]

MaxEmlCalls == 4

ExtractionIdle ==
    /\ eml_calls = <<>>
    /\ clock = 1
    /\ extracted_metadata = <<>>
    /\ email_metadata = {}
    /\ attachment_metadata = {}
    /\ error_log = <<>>

\* One process_single_eml call of the batch: any file of the directory,
\* with the database accepting the write or not.  The batch is over when
\* execute_complete_forensic_extraction goes on to the analysis.
ProcessSingleEml ==
    /\ Len(eml_calls) < MaxEmlCalls
    /\ timeline_analysis.status = NoResult
    /\ \E file \in EmlFiles, db_ok \in BOOLEAN :
          LET self == [ extracted_metadata  |-> extracted_metadata,
                        forensic_timeline   |-> forensic_timeline,
                        email_metadata      |-> email_metadata,
                        attachment_metadata |-> attachment_metadata,
                        error_log           |-> error_log,
                        outcome             |-> NoResult ]
              after == process_single_eml(self, file, db_ok, clock)
          IN  /\ extracted_metadata' = after.extracted_metadata
              /\ forensic_timeline' = after.forensic_timeline
              /\ email_metadata' = after.email_metadata
              /\ attachment_metadata' = after.attachment_metadata
              /\ error_log' = after.error_log
              /\ eml_calls' = Append(eml_calls,
                                     [ file    |-> file,
                                       db_ok   |-> db_ok,
                                       outcome |-> after.outcome ])
    /\ clock' = clock + 1
    /\ UNCHANGED timeline_analysis
    /\ UNCHANGED <<toneVars, narrativeVars, strategyVars, graphVars>>
    /\ UNCHANGED <<threadVars, monitorVars>>
    /\ UNCHANGED <<restartVars, dispatchVars, verifyVars, masterVars, scoreVars>>

(***************************************************************************)
(* NarrativeReconstructionEngine.identify_narrative_threads                *)
(***************************************************************************)
\* determine_thread_id is called but not defined in the repository.  The
\* specification: a thread key derived from the topic signature combined
\* with the participant set; the events of the model carry no subject, so
\* the key is the participant set.
determine_thread_id(event) ==
    { event.participants[i] : i \in 1..Len(event.participants) }

\* max(a, b) on timestamps evaluates b > a: TypeError when either is None
\* (None > None included) or one is naive and the other aware.
MaxRaises(a, b) == ~Comparable(a, b)

PyMax(a, b) == IF b.t > a.t THEN b ELSE a

\* The thread an event opens (lines 108-115).
NewThread(thread_id, event) ==
    [ events     |-> <<>>,
      participants |-> {},
      theme      |-> thread_id,
      start_date |-> event.timestamp,
      end_date   |-> event.timestamp ]

\* Lines 117-119: append the event, add its participants, raise end_date.
\* start_date is not assigned again.
AddToThread(thread, event) ==
    [ thread EXCEPT
        !.events = Append(@, event),
        !.participants = @ \cup { event.participants[i] :
                                    i \in 1..Len(event.participants) },
        !.end_date = PyMax(@, event.timestamp) ]

NoThreads == [status |-> NoResult, threads |-> <<>>]

\* The loop of identify_narrative_threads over the first n events.
RECURSIVE ThreadsUpTo(_, _)
ThreadsUpTo(tl, n) ==
    IF n = 0 THEN [status |-> "ok", threads |-> <<>>]
    ELSE LET before == ThreadsUpTo(tl, n - 1)
             event == tl[n]
             thread_id == determine_thread_id(event)
             known == { k \in 1..Len(before.threads) :
                          before.threads[k].theme = thread_id }
             opened == IF known = {}
                       THEN Append(before.threads, NewThread(thread_id, event))
                       ELSE before.threads
             at == CHOOSE k \in 1..Len(opened) : opened[k].theme = thread_id
         IN  IF before.status # "ok" THEN before
             ELSE IF MaxRaises(opened[at].end_date, event.timestamp)
             THEN [status |-> "TypeError", threads |-> <<>>]
             ELSE [ status  |-> "ok",
                    threads |-> [opened EXCEPT ![at] = AddToThread(@, event)] ]

\* identify_narrative_threads: the dict of threads in insertion order.
identify_narrative_threads(tl) == ThreadsUpTo(tl, Len(tl))

NoRun == [status |-> NoResult, timeline |-> NoTimeline, threads |-> NoThreads]

ThreadsIdle ==
    /\ narrative_threads = NoThreads
    /\ previous_run = NoRun

MaxThreadEvents == 3

\* Timelines handed to identify_narrative_threads directly: events in any
\* order, dated or undated.
GivenTimelines ==
    UNION { { [i \in 1..n |->
                 [ src          |-> <<"event", i>>,
                   timestamp    |-> ts[i],
                   type         |-> "communication",
                   subtype      |-> "email",
                   participants |-> ps[i],
                   importance   |-> "medium" ]] :
                ts \in [1..n -> EmailTimes], ps \in [1..n -> EmailRoutes] } :
            n \in 0..MaxThreadEvents }

ThreadsInit ==
    /\ emails = <<>>
    /\ documents = <<>>
    /\ causal_heuristic \in { [f \in BOOLEAN \X BOOLEAN |-> 4] }
    /\ timeline \in { [status |-> "ok", events |-> ev] : ev \in GivenTimelines }
    /\ causal_map = NoCausalMap
    /\ narrative_threads = NoThreads
    /\ previous_run = NoRun

\* Step 2 of reconstruct_complete_narrative, reached when step 1 returned.
IdentifyNarrativeThreads ==
    /\ timeline.status = "ok"
    /\ narrative_threads.status = NoResult
    /\ narrative_threads' = identify_narrative_threads(timeline.events)
    /\ UNCHANGED previous_run
    /\ UNCHANGED <<toneVars, narrativeVars, forensicVars, strategyVars, graphVars>>
    /\ UNCHANGED <<extractionVars, monitorVars>>
    /\ UNCHANGED <<restartVars, dispatchVars, verifyVars, masterVars, scoreVars>>

\* The inputs of a narrative engine that is run twice on the same sources.
RerunInit ==
    /\ emails \in SeqsUpTo(EmailInputs, MaxEmails)
    /\ documents \in SeqsUpTo(DocumentInputs, MaxDocuments)
    /\ causal_heuristic \in { [f \in BOOLEAN \X BOOLEAN |-> 4] }
    /\ timeline = NoTimeline
    /\ causal_map = NoCausalMap
    /\ narrative_threads = NoThreads
    /\ previous_run = NoRun

\* reconstruct_complete_narrative called again with the same sources: the
\* caller keeps the timeline and threads of the first run.
ReconstructAgain ==
    /\ previous_run.status = NoResult
    /\ narrative_threads.status # NoResult
    /\ previous_run' = [ status   |-> "done",
                         timeline |-> timeline,
                         threads  |-> narrative_threads ]
    /\ timeline' = NoTimeline
    /\ narrative_threads' = NoThreads
    /\ UNCHANGED <<emails, documents, causal_heuristic, causal_map>>
    /\ UNCHANGED <<toneVars, forensicVars, strategyVars, graphVars>>
    /\ UNCHANGED <<extractionVars, monitorVars>>
    /\ UNCHANGED <<restartVars, dispatchVars, verifyVars, masterVars, scoreVars>>

(***************************************************************************)
(* RealTimeMonitoringSystem                                                *)
(*                                                                         *)
(* Six monitoring threads and the alert consumer, each a loop              *)
(* `while self.is_monitoring`.  A monitoring thread is named by the type   *)
(* of the alerts it puts.  An alert is told apart by its type and by its   *)
(* number among the alerts of its thread.                                  *)
(***************************************************************************)
MonitoringTasks ==
    { "vcat_decision", "relevant_email", "legal_update",
      "government_announcement", "deadline_alert", "court_listing" }

AlertProcessor == "process_alerts"

MonitoringThreads == MonitoringTasks \cup { AlertProcessor }

\* The severities a thread gives its alerts (lines 131, 159, 183, 208, 229,
\* 260).  A relevant email has relevance above 0.7, that is at least 5 of
\* the 6 keywords, which is above 0.8 as well: 'medium'.
Severities(task) ==
    CASE task = "vcat_decision"           -> { "high" }
      [] task = "relevant_email"          -> { "medium" }
      [] task = "legal_update"            -> { "medium" }
      [] task = "government_announcement" -> { "medium" }
      [] task = "deadline_alert"          -> { "high", "medium", "low" }
      [] task = "court_listing"           -> { "high" }

\* queue.Queue: put appends at the tail, get removes the head.
queue_put(q, item) == Append(q, item)

\* Mutant: get takes the item put last.
queue_get_last(q) == [item |-> q[Len(q)], rest |-> SubSeq(q, 1, Len(q) - 1)]

queue_get(q) == [item |-> Head(q), rest |-> Tail(q)]

\* store_alert is called but not defined in the repository; the
\* specification: the consumer persists each alert (a row of
\* monitoring_alerts, in insertion order).
store_alert(table, alert) == Append(table, alert)

\* determine_action_required is called but not defined in the repository
\* and the specification does not say when an action is required; taken
\* here as: for every alert above low severity.
determine_action_required(alert) == alert.severity # "low"

\* execute_alert_action: the handler looked up by alert['type'].  The
\* handlers of deadline_alert, court_listing, legal_update and
\* government_announcement are named in the table but not defined in the
\* repository; they are taken to exist.
AlertHandlers == MonitoringTasks

MaxItems == 2

MaxAlerts == 3

MaxShutdownItems == 1

\* The monitoring system as __init__ leaves it.
MonitorConstructed ==
    /\ is_monitoring = FALSE
    /\ pc = [t \in MonitoringThreads |-> "unstarted"]
    /\ pending = [t \in MonitoringTasks |-> 0]
    /\ put_count = [t \in MonitoringTasks |-> 0]
    /\ alert_queue = <<>>
    /\ monitoring_alerts = <<>>
    /\ dispatched = {}
    /\ notified = {}
    /\ taken = <<>>

MonitorIdle ==
    /\ MonitorConstructed
    /\ source_items = 0

\* start_comprehensive_monitoring: the flag is set and the seven daemon
\* threads are started.
StartComprehensiveMonitoring ==
    /\ \A t \in MonitoringThreads : pc[t] = "unstarted"
    /\ is_monitoring' = TRUE
    /\ pc' = [t \in MonitoringThreads |-> "loop"]
    /\ UNCHANGED <<pending, put_count, alert_queue, monitoring_alerts,
                   dispatched, notified, source_items, taken>>
    /\ UNCHANGED <<toneVars, narrativeVars, forensicVars, strategyVars, graphVars>>
    /\ UNCHANGED <<extractionVars, threadVars>>
    /\ UNCHANGED <<restartVars, dispatchVars, verifyVars, masterVars, scoreVars>>

\* Mutant: the loop boundary does not look at the flag.
Poll_ignoring_flag(task) ==
    /\ pc[task] = "loop"
    /\ \E n \in 1..Min(MaxItems, source_items) :
          /\ pending' = [pending EXCEPT ![task] = n]
          /\ source_items' = source_items - n
    /\ pc' = [pc EXCEPT ![task] = "put"]
    /\ UNCHANGED <<is_monitoring, put_count, alert_queue, monitoring_alerts,
                   dispatched, notified, taken>>
    /\ UNCHANGED <<toneVars, narrativeVars, forensicVars, strategyVars, graphVars>>
    /\ UNCHANGED <<extractionVars, threadVars>>
    /\ UNCHANGED <<restartVars, dispatchVars, verifyVars, masterVars, scoreVars>>

\* A monitoring thread at its loop boundary with the flag set: the external
\* check returns and n of its items pass the thread's filter.  (The check_*
\* helpers of the repository are placeholders that return []; they stand
\* for external sources.)  With n = 0, or when the check raises, the thread
\* sleeps and is at the loop boundary again.
Poll(task) ==
    /\ pc[task] = "loop"
    /\ is_monitoring
    /\ \E n \in 1..Min(MaxItems, source_items) :
          /\ pending' = [pending EXCEPT ![task] = n]
          /\ source_items' = source_items - n
    /\ pc' = [pc EXCEPT ![task] = "put"]
    /\ UNCHANGED <<is_monitoring, put_count, alert_queue, monitoring_alerts,
                   dispatched, notified, taken>>
    /\ UNCHANGED <<toneVars, narrativeVars, forensicVars, strategyVars, graphVars>>
    /\ UNCHANGED <<extractionVars, threadVars>>
    /\ UNCHANGED <<restartVars, dispatchVars, verifyVars, masterVars, scoreVars>>

\* One self.alert_queue.put(...) of the thread's for loop; after the last
\* one the thread sleeps and returns to the loop boundary.
PutAlert(task) ==
    /\ pc[task] = "put"
    /\ \E severity \in Severities(task) :
          alert_queue' = queue_put(alert_queue,
                                   [ type     |-> task,
                                     n        |-> put_count[task] + 1,
                                     severity |-> severity ])
    /\ put_count' = [put_count EXCEPT ![task] = @ + 1]
    /\ pending' = [pending EXCEPT ![task] = @ - 1]
    /\ pc' = [pc EXCEPT ![task] = IF pending[task] = 1 THEN "loop" ELSE "put"]
    /\ UNCHANGED <<is_monitoring, monitoring_alerts, dispatched, notified,
                   source_items, taken>>
    /\ UNCHANGED <<toneVars, narrativeVars, forensicVars, strategyVars, graphVars>>
    /\ UNCHANGED <<extractionVars, threadVars>>
    /\ UNCHANGED <<restartVars, dispatchVars, verifyVars, masterVars, scoreVars>>

\* One iteration of process_alerts that finds the queue non-empty: get,
\* store, dispatch when an action is required, notify when the severity is
\* high.  Whatever store_alert or a handler raises is caught by the except
\* of the loop, which logs it and sleeps: the rest of the iteration is
\* skipped and the alert, already removed by get, is not put back.  Only
\* this thread touches the table and the handlers, so the iteration is one
\* step.
ProcessAlert ==
    /\ pc[AlertProcessor] = "loop"
    /\ is_monitoring
    /\ alert_queue # <<>>
    /\ LET got == queue_get(alert_queue)
           alert == got.item
           action_required == determine_action_required(alert)
       IN  /\ alert_queue' = got.rest
           /\ taken' = Append(taken, alert)
           /\ \E store_ok \in BOOLEAN, handler_ok \in BOOLEAN :
                 /\ ~(store_ok /\ action_required) => handler_ok
                 /\ monitoring_alerts' =
                       IF store_ok THEN store_alert(monitoring_alerts, alert)
                                   ELSE monitoring_alerts
                 /\ dispatched' =
                       IF store_ok /\ action_required /\ alert.type \in AlertHandlers
                       THEN dispatched \cup { alert } ELSE dispatched
                 /\ notified' =
                       IF store_ok /\ handler_ok /\ alert.severity = "high"
                       THEN notified \cup { alert } ELSE notified
    /\ UNCHANGED <<is_monitoring, pc, pending, put_count, source_items>>
    /\ UNCHANGED <<toneVars, narrativeVars, forensicVars, strategyVars, graphVars>>
    /\ UNCHANGED <<extractionVars, threadVars>>
    /\ UNCHANGED <<restartVars, dispatchVars, verifyVars, masterVars, scoreVars>>

\* main, line 434: the KeyboardInterrupt handler clears the flag.
StopMonitoring ==
    /\ is_monitoring
    /\ is_monitoring' = FALSE
    /\ UNCHANGED <<pc, pending, put_count, alert_queue, monitoring_alerts,
                   dispatched, notified, source_items, taken>>
    /\ UNCHANGED <<toneVars, narrativeVars, forensicVars, strategyVars, graphVars>>
    /\ UNCHANGED <<extractionVars, threadVars>>
    /\ UNCHANGED <<restartVars, dispatchVars, verifyVars, masterVars, scoreVars>>

\* A thread at its loop boundary reads the flag cleared: the while loop
\* ends and the thread's target returns.
ExitLoop(thread) ==
    /\ pc[thread] = "loop"
    /\ ~is_monitoring
    /\ pc' = [pc EXCEPT ![thread] = "done"]
    /\ UNCHANGED <<is_monitoring, pending, put_count, alert_queue,
                   monitoring_alerts, dispatched, notified, source_items, taken>>
    /\ UNCHANGED <<toneVars, narrativeVars, forensicVars, strategyVars, graphVars>>
    /\ UNCHANGED <<extractionVars, threadVars>>
    /\ UNCHANGED <<restartVars, dispatchVars, verifyVars, masterVars, scoreVars>>

\* The steps of one monitoring thread.
MonitorTask(task) == Poll(task) \/ PutAlert(task) \/ ExitLoop(task)

\* The steps of the consumer thread.
ProcessAlerts == ProcessAlert \/ ExitLoop(AlertProcessor)

(***************************************************************************)
(* RealTimeMonitoringSystem started more than once                         *)
(*                                                                         *)
(* Every call of start_comprehensive_monitoring sets the flag and starts   *)
(* six monitoring threads and one process_alerts thread; nothing in it     *)
(* looks at the threads of an earlier call.  Here every consumer is        *)
(* followed on its own; the monitoring threads are followed together, as   *)
(* the length of monitoring_threads.                                       *)
(***************************************************************************)
MaxStarts == 3

RestartIdle ==
    /\ alert_threads = <<>>
    /\ monitoring_threads = 0

\* start_comprehensive_monitoring, called by main or in the thread that
\* MasterIntelligenceSystem.activate_monitoring starts.
ActivateMonitoring ==
    /\ Len(alert_threads) < MaxStarts
    /\ is_monitoring' = TRUE
    /\ monitoring_threads' = monitoring_threads + Cardinality(MonitoringTasks)
    /\ alert_threads' = Append(alert_threads, "loop")
    /\ UNCHANGED <<pc, pending, put_count, alert_queue, monitoring_alerts,
                   dispatched, notified, source_items, taken>>
    /\ UNCHANGED <<toneVars, narrativeVars, forensicVars, strategyVars, graphVars>>
    /\ UNCHANGED <<extractionVars, threadVars>>
    /\ UNCHANGED <<dispatchVars, verifyVars, masterVars, scoreVars>>

\* One of the monitoring threads started so far finds an item and puts its
\* alert.
MonitorPuts ==
    /\ monitoring_threads > 0
    /\ is_monitoring
    /\ source_items > 0
    /\ \E task \in MonitoringTasks : \E severity \in Severities(task) :
          /\ alert_queue' = queue_put(alert_queue,
                                      [ type     |-> task,
                                        n        |-> put_count[task] + 1,
                                        severity |-> severity ])
          /\ put_count' = [put_count EXCEPT ![task] = @ + 1]
    /\ source_items' = source_items - 1
    /\ UNCHANGED <<is_monitoring, pc, pending, monitoring_alerts, dispatched,
                   notified, taken>>
    /\ UNCHANGED <<toneVars, narrativeVars, forensicVars, strategyVars, graphVars>>
    /\ UNCHANGED <<extractionVars, threadVars>>
    /\ UNCHANGED <<restartVars, dispatchVars, verifyVars, masterVars, scoreVars>>

\* One iteration of the k-th process_alerts thread that finds the queue
\* non-empty (as ProcessAlert).
ConsumerTakes(k) ==
    /\ alert_threads[k] = "loop"
    /\ is_monitoring
    /\ alert_queue # <<>>
    /\ LET got == queue_get(alert_queue)
           alert == got.item
           action_required == determine_action_required(alert)
       IN  /\ alert_queue' = got.rest
           /\ taken' = Append(taken, alert)
           /\ \E store_ok \in BOOLEAN, handler_ok \in BOOLEAN :
                 /\ ~(store_ok /\ action_required) => handler_ok
                 /\ monitoring_alerts' =
                       IF store_ok THEN store_alert(monitoring_alerts, alert)
                                   ELSE monitoring_alerts
                 /\ dispatched' =
                       IF store_ok /\ action_required /\ alert.type \in AlertHandlers
                       THEN dispatched \cup { alert } ELSE dispatched
                 /\ notified' =
                       IF store_ok /\ handler_ok /\ alert.severity = "high"
                       THEN notified \cup { alert } ELSE notified
    /\ UNCHANGED <<is_monitoring, pc, pending, put_count, source_items>>
    /\ UNCHANGED <<toneVars, narrativeVars, forensicVars, strategyVars, graphVars>>
    /\ UNCHANGED <<extractionVars, threadVars>>
    /\ UNCHANGED <<restartVars, dispatchVars, verifyVars, masterVars, scoreVars>>

\* The k-th process_alerts thread reads the flag cleared and returns.
ConsumerExits(k) ==
    /\ alert_threads[k] = "loop"
    /\ ~is_monitoring
    /\ alert_threads' = [alert_threads EXCEPT ![k] = "done"]
    /\ UNCHANGED monitoring_threads
    /\ UNCHANGED monitorVars
    /\ UNCHANGED <<toneVars, narrativeVars, forensicVars, strategyVars, graphVars>>
    /\ UNCHANGED <<extractionVars, threadVars>>
    /\ UNCHANGED <<dispatchVars, verifyVars, masterVars, scoreVars>>

(***************************************************************************)
(* RealTimeMonitoringSystem.execute_alert_action                           *)
(***************************************************************************)
\* The action_* methods the class defines (lines 314 and 324).
DefinedActions == { "action_analyze_new_decision", "action_analyze_new_email" }

NoHandler == "None"

\* The dispatch table, lines 301-308, read with actions.get(alert['type']).
actions(type) ==
    CASE type = "vcat_decision"           -> "action_analyze_new_decision"
      [] type = "relevant_email"          -> "action_analyze_new_email"
      [] type = "deadline_alert"          -> "action_prepare_deadline_response"
      [] type = "court_listing"           -> "action_prepare_court_appearance"
      [] type = "legal_update"            -> "action_analyze_legal_impact"
      [] type = "government_announcement" -> "action_assess_policy_impact"
      [] OTHER                            -> NoHandler

\* execute_alert_action on an object with the methods `self`: the dict
\* display evaluates self.<method> for every entry of the table before the
\* lookup, and an attribute the object does not have raises AttributeError.
execute_alert_action(self, alert) ==
    IF \E type \in MonitoringTasks : actions(type) \notin self
    THEN "AttributeError"
    ELSE IF actions(alert.type) # NoHandler THEN "handled" ELSE "ignored"

MaxDispatch == 3

\* The types of the alerts handed to execute_alert_action: those the
\* monitoring threads put and one that no thread puts.
AlertTypes == MonitoringTasks \cup { "system_notice" }

DispatchIdle == action_calls = <<>>

ExecuteAlertAction ==
    /\ Len(action_calls) < MaxDispatch
    /\ \E type \in AlertTypes :
          action_calls' =
              Append(action_calls,
                     [ type    |-> type,
                       outcome |-> execute_alert_action(DefinedActions,
                                                        [type |-> type]) ])
    /\ UNCHANGED <<toneVars, narrativeVars, forensicVars, strategyVars, graphVars>>
    /\ UNCHANGED <<extractionVars, threadVars, monitorVars>>
    /\ UNCHANGED <<restartVars, verifyVars, masterVars, scoreVars>>

(***************************************************************************)
(* Verification confidence                                                 *)
(*                                                                         *)
(* A text is told apart by the references auto_verify_legal_content finds  *)
(* in it, and a reference by the 'verified' flag of its verification (True *)
(* from the try branch of verify_case_citation / verify_statute, False     *)
(* from their except branch).  A confidence score is the fraction          *)
(* num / den, so that the comparison with 80 is exact.                     *)
(***************************************************************************)
VerifiedCount(verifications) ==
    Cardinality({ i \in 1..Len(verifications) : verifications[i] })

\* calculate_confidence_score: 0 without verifications, else
\* (verified_count / total_count) * 100.
calculate_confidence_score(verifications) ==
    IF verifications = <<>>
    THEN [num |-> 0, den |-> 1]
    ELSE [num |-> VerifiedCount(verifications) * 100, den |-> Len(verifications)]

\* confidence >= n and confidence > n
AtLeast(confidence, n) == confidence.num >= n * confidence.den

Above(confidence, n) == confidence.num > n * confidence.den

\* The threshold of lines 44, 57 and 59 of analyze_with_verification and of
\* line 178 of verify_all_legal_information.
ConfidenceThreshold == 80

\* auto_verify_legal_content, as far as its callers read the result.
auto_verify_legal_content(text) ==
    [ verifications    |-> text,
      confidence_score |-> calculate_confidence_score(text) ]

NoAnalysis ==
    [ status |-> NoResult, confidence |-> [num |-> 0, den |-> 1],
      analysis_approved |-> FALSE, academic_integrity |-> "" ]

\* Mutant: approval needs a confidence above the threshold.
analyze_with_verification_above(text) ==
    LET confidence == auto_verify_legal_content(text).confidence_score
    IN  [ status             |-> "ok",
          confidence         |-> confidence,
          analysis_approved  |-> Above(confidence, ConfidenceThreshold),
          academic_integrity |-> IF Above(confidence, ConfidenceThreshold)
                                 THEN "COMPLIANT" ELSE "REQUIRES_REVIEW" ]

\* analyze_with_verification: the warning of step 2 is printed only.
analyze_with_verification(text) ==
    LET confidence == auto_verify_legal_content(text).confidence_score
    IN  [ status             |-> "ok",
          confidence         |-> confidence,
          analysis_approved  |-> AtLeast(confidence, ConfidenceThreshold),
          academic_integrity |-> IF AtLeast(confidence, ConfidenceThreshold)
                                 THEN "COMPLIANT" ELSE "REQUIRES_REVIEW" ]

NoOverallVerification ==
    [ status |-> NoResult, total_content_pieces |-> 0, verified_pieces |-> 0,
      government_verified |-> FALSE, detailed_results |-> <<>> ]

\* The pieces of all_text_content that are verified: those with
\* len(content.strip()) > 10.
SubstantialPieces(pieces) ==
    { i \in 1..Len(pieces) : pieces[i].substantial }

\* verify_all_legal_information on the content pieces collected from
\* intelligence_data; detailed_results[i] is the result under 'content_i'.
verify_all_legal_information(pieces) ==
    LET results == [ i \in 1..Len(pieces) |->
                       IF pieces[i].substantial
                       THEN [ status |-> "ok",
                              confidence_score |->
                                  auto_verify_legal_content(pieces[i].references)
                                      .confidence_score ]
                       ELSE [ status |-> "skipped",
                              confidence_score |-> [num |-> 0, den |-> 1] ] ]
        verified == { i \in SubstantialPieces(pieces) :
                        AtLeast(results[i].confidence_score, ConfidenceThreshold) }
    IN  [ status               |-> "ok",
          total_content_pieces |-> Cardinality(SubstantialPieces(pieces)),
          verified_pieces      |-> Cardinality(verified),
          government_verified  |->
              Cardinality(verified) = Cardinality(SubstantialPieces(pieces)),
          detailed_results     |-> results ]

MaxReferences == 5

MaxPieces == 2

\* Content pieces: too short to be verified, without references, fully,
\* half and four fifths verified.
ContentPieces ==
    { [substantial |-> FALSE, references |-> <<>>],
      [substantial |-> TRUE, references |-> <<>>],
      [substantial |-> TRUE, references |-> <<TRUE>>],
      [substantial |-> TRUE, references |-> <<TRUE, FALSE>>],
      [substantial |-> TRUE, references |-> <<TRUE, TRUE, FALSE, TRUE, TRUE>>] }

VerifyIdle ==
    /\ case_text = <<>>
    /\ analysis = NoAnalysis
    /\ intelligence_data = <<>>
    /\ overall_verification = NoOverallVerification

VerifyInit ==
    /\ case_text \in SeqsUpTo(BOOLEAN, MaxReferences)
    /\ analysis = NoAnalysis
    /\ intelligence_data \in SeqsUpTo(ContentPieces, MaxPieces)
    /\ overall_verification = NoOverallVerification

AnalyzeWithVerification ==
    /\ analysis.status = NoResult
    /\ analysis' = analyze_with_verification(case_text)
    /\ UNCHANGED <<case_text, intelligence_data, overall_verification>>
    /\ UNCHANGED <<toneVars, narrativeVars, forensicVars, strategyVars, graphVars>>
    /\ UNCHANGED <<extractionVars, threadVars, monitorVars>>
    /\ UNCHANGED <<restartVars, dispatchVars, masterVars, scoreVars>>

VerifyAllLegalInformation ==
    /\ overall_verification.status = NoResult
    /\ overall_verification' = verify_all_legal_information(intelligence_data)
    /\ UNCHANGED <<case_text, analysis, intelligence_data>>
    /\ UNCHANGED <<toneVars, narrativeVars, forensicVars, strategyVars, graphVars>>
    /\ UNCHANGED <<extractionVars, threadVars, monitorVars>>
    /\ UNCHANGED <<restartVars, dispatchVars, masterVars, scoreVars>>

(***************************************************************************)
(* MasterIntelligenceSystem                                                *)
(*                                                                         *)
(* One run of execute_complete_analysis is one step.  The run carries the  *)
(* stage outputs that the synthesis and the executive summary read: the    *)
(* email_data of the Gmail stage and the strategy ranking of the narrative *)
(* stage.  Probabilities are percentages, as in the strategy simulator.    *)
(***************************************************************************)
MaxParties == 2

MaxRuns == 2

\* Length of the relationship data a run hands the strategy simulator.
MaxRunRelationships == 1

\* The contacts that can be keys of email_data.
Contacts == 1..MaxParties

NoGmail == [status |-> NoResult, email_data |-> {}]

NoFactors ==
    [ number_of_parties       |-> 0,
      legal_areas_involved    |-> <<>>,
      government_involvement  |-> FALSE,
      emotional_complexity    |-> "",
      relationship_complexity |-> "" ]

NoSynthesis ==
    [ status             |-> NoResult,
      complexity_factors |-> NoFactors,
      complexity_score   |-> 0,
      complexity_level   |-> "" ]

\* self.complete_intelligence = {} of the constructor.
NoIntelligence ==
    [ status                 |-> NoResult,
      gmail_intelligence     |-> NoGmail,
      narrative_intelligence |-> NoStrategic,
      master_synthesis       |-> NoSynthesis ]

NoSummary == [status |-> NoResult, success_probability |-> 0]

\* The factors of assess_situation_complexity; ci is self.complete_intelligence
\* at the time of the call, and a missing key reads as an empty mapping.
complexity_factors(ci) ==
    [ number_of_parties       |-> Cardinality(ci.gmail_intelligence.email_data),
      legal_areas_involved    |-> <<"tenancy", "administrative", "property">>,
      government_involvement  |-> TRUE,
      emotional_complexity    |-> "high",
      relationship_complexity |-> "medium" ]

\* The sum of lines 254-259 over a mapping of factors.
WeightedSum(f) ==
    Len(f.legal_areas_involved) * 2
    + (IF f.government_involvement THEN 5 ELSE 0)
    + (IF f.emotional_complexity = "high" THEN 3 ELSE 1)
    + (IF f.relationship_complexity = "medium" THEN 2 ELSE 1)

complexity_level(score) ==
    IF score > 7 THEN "high" ELSE IF score > 4 THEN "medium" ELSE "low"

\* Mutant: the sum returned without min(10, ...).
assess_situation_complexity_uncapped(ci) ==
    [ status             |-> "ok",
      complexity_factors |-> complexity_factors(ci),
      complexity_score   |-> WeightedSum(complexity_factors(ci)),
      complexity_level   |-> complexity_level(WeightedSum(complexity_factors(ci))) ]

assess_situation_complexity(ci) ==
    [ status             |-> "ok",
      complexity_factors |-> complexity_factors(ci),
      complexity_score   |-> Min(10, WeightedSum(complexity_factors(ci))),
      complexity_level   |-> complexity_level(WeightedSum(complexity_factors(ci))) ]

\* synthesize_master_intelligence: the complexity assessment is the first
\* value built.  The seven methods called after it are not defined in the
\* repository and are taken to return.
synthesize_master_intelligence(ci) == assess_situation_complexity(ci)

\* calculate_overall_success_probability returns the literal 0.85.
calculate_overall_success_probability == 85

generate_executive_summary ==
    [status |-> "ok", success_probability |-> calculate_overall_success_probability]

MasterIdle ==
    /\ gmail_intelligence = NoGmail
    /\ complete_intelligence = NoIntelligence
    /\ executive_summary = NoSummary
    /\ master_runs = 0

\* execute_complete_analysis.  email_data is what the Gmail stage extracted
\* and rd the relationship data the strategy simulator is handed.  A
\* simulator that raises ends the run before phase 4.  Otherwise phase 4
\* starts start_comprehensive_monitoring in a new thread, and phase 5
\* evaluates the mapping of lines 112-127, synthesize_master_intelligence()
\* included, before it is assigned to self.complete_intelligence: the
\* synthesis reads the mapping of the previous run.
ExecuteCompleteAnalysis ==
    /\ master_runs < MaxRuns
    /\ master_runs' = master_runs + 1
    /\ \E email_data \in SUBSET Contacts :
       \E rd \in SeqsUpTo(RelationshipValues, MaxRunRelationships) :
          /\ gmail_intelligence' = [status |-> "ok", email_data |-> email_data]
          /\ relationship_data' = rd
          /\ strategic' = simulate_legal_strategies(rd)
          /\ IF AdjustmentsRaise(rd)
             THEN /\ executive_summary' = NoSummary
                  /\ UNCHANGED <<complete_intelligence, is_monitoring, restartVars>>
             ELSE /\ is_monitoring' = TRUE
                  /\ monitoring_threads' =
                         monitoring_threads + Cardinality(MonitoringTasks)
                  /\ alert_threads' = Append(alert_threads, "loop")
                  /\ complete_intelligence' =
                         [ status                 |-> "ok",
                           gmail_intelligence     |-> gmail_intelligence',
                           narrative_intelligence |-> strategic',
                           master_synthesis       |->
                               synthesize_master_intelligence(complete_intelligence) ]
                  /\ executive_summary' = generate_executive_summary
    /\ UNCHANGED probability
    /\ UNCHANGED <<pc, pending, put_count, alert_queue, monitoring_alerts,
                   dispatched, notified, source_items, taken>>
    /\ UNCHANGED <<toneVars, narrativeVars, forensicVars, graphVars>>
    /\ UNCHANGED <<extractionVars, threadVars>>
    /\ UNCHANGED <<dispatchVars, verifyVars, scoreVars>>

(***************************************************************************)
(* ProfessorJeffForensicSystem.jeff_psychological_analysis                 *)
(*                                                                         *)
(* msg_content is the text extract_email_content returned for the message. *)
(***************************************************************************)
urgency_words ==
    << <<"u","r","g","e","n","t">>,
       <<"i","m","m","e","d","i","a","t","e">>,
       <<"a","s","a","p">>,
       <<"e","m","e","r","g","e","n","c","y">>,
       <<"c","r","i","t","i","c","a","l">> >>

authority_patterns ==
    << <<"y","o","u"," ","m","u","s","t">>,
       <<"r","e","q","u","i","r","e","d"," ","t","o">>,
       <<"o","b","l","i","g","a","t","i","o","n">>,
       <<"f","a","i","l","u","r","e"," ","t","o"," ","c","o","m","p","l","y">> >>

negative_words ==
    << <<"b","r","e","a","c","h">>,
       <<"v","i","o","l","a","t","i","o","n">>,
       <<"f","a","i","l","u","r","e">>,
       <<"n","o","n","-","c","o","m","p","l","i","a","n","c","e">>,
       <<"t","e","r","m","i","n","a","t","i","o","n">> >>

\* sum(1 for word in words if word in content.lower())
keyword_count(words, text) ==
    Cardinality({ i \in 1..Len(words) : IsSubstring(words[i], Lower(text)) })

jeff_psychological_analysis(text) ==
    LET urgency_count   == keyword_count(urgency_words, text)
        authority_count == keyword_count(authority_patterns, text)
        negative_count  == keyword_count(negative_words, text)
    IN  [ status               |-> "ok",
          urgency_score        |-> urgency_count,
          authority_assertions |-> authority_count,
          negative_tone_score  |-> negative_count,
          jeff_insights        |->
              (IF urgency_count > 2 THEN <<"urgency">> ELSE <<>>)
              \o (IF authority_count > 1 THEN <<"authority">> ELSE <<>>)
              \o (IF negative_count > 2 THEN <<"negative">> ELSE <<>>) ]

NoPsychological ==
    [ status               |-> NoResult,
      urgency_score        |-> 0,
      authority_assertions |-> 0,
      negative_tone_score  |-> 0,
      jeff_insights        |-> <<>> ]

\* Words the modelled message contents are made of: urgency keywords, the
\* two halves of "you must" in mixed case, and negative-tone keywords.
PsychVocabulary ==
    { <<"u","r","g","e","n","t">>,
      <<"a","s","a","p">>,
      <<"y","o","u">>,
      <<"M","U","S","T">>,
      <<"b","r","e","a","c","h">>,
      <<"f","a","i","l","u","r","e">> }

MaxPsychWords == 3

Contents == { JoinWords(ws) : ws \in SeqsUpTo(PsychVocabulary, MaxPsychWords) }

ScoreIdle ==
    /\ msg_content = <<>>
    /\ psychological = NoPsychological

ScoreInit ==
    /\ msg_content \in Contents
    /\ psychological = NoPsychological

JeffPsychologicalAnalysis ==
    /\ psychological.status = NoResult
    /\ psychological' = jeff_psychological_analysis(msg_content)
    /\ UNCHANGED msg_content
    /\ UNCHANGED <<toneVars, narrativeVars, forensicVars, strategyVars, graphVars>>
    /\ UNCHANGED <<extractionVars, threadVars, monitorVars>>
    /\ UNCHANGED <<restartVars, dispatchVars, verifyVars, masterVars>>

(***************************************************************************)
(* A monitoring thread whose external check raises                         *)
(*                                                                         *)
(* Each monitor_* loop wraps one iteration in try / except Exception: the  *)
(* handler logs the error and sleeps 300 seconds, and the while condition  *)
(* is evaluated again.                                                     *)
(***************************************************************************)
\* Mutant: no except clause; the exception leaves the thread's target.
CheckRaises_uncaught(task) ==
    /\ pc[task] = "loop"
    /\ is_monitoring
    /\ pc' = [pc EXCEPT ![task] = "done"]
    /\ UNCHANGED <<is_monitoring, pending, put_count, alert_queue,
                   monitoring_alerts, dispatched, notified, source_items, taken>>
    /\ UNCHANGED <<toneVars, narrativeVars, forensicVars, strategyVars, graphVars>>
    /\ UNCHANGED <<extractionVars, threadVars>>
    /\ UNCHANGED <<restartVars, dispatchVars, verifyVars, masterVars, scoreVars>>

\* The check_* call of an iteration raises: nothing has been put in this
\* iteration, and the thread is in its except clause.
CheckRaises(task) ==
    /\ pc[task] = "loop"
    /\ is_monitoring
    /\ pc' = [pc EXCEPT ![task] = "except"]
    /\ UNCHANGED <<is_monitoring, pending, put_count, alert_queue,
                   monitoring_alerts, dispatched, notified, source_items, taken>>
    /\ UNCHANGED <<toneVars, narrativeVars, forensicVars, strategyVars, graphVars>>
    /\ UNCHANGED <<extractionVars, threadVars>>
    /\ UNCHANGED <<restartVars, dispatchVars, verifyVars, masterVars, scoreVars>>

\* logging.error and time.sleep(300) of the except clause return; the
\* thread is at its loop boundary again.
ErrorWaitEnds(task) ==
    /\ pc[task] = "except"
    /\ pc' = [pc EXCEPT ![task] = "loop"]
    /\ UNCHANGED <<is_monitoring, pending, put_count, alert_queue,
                   monitoring_alerts, dispatched, notified, source_items, taken>>
    /\ UNCHANGED <<toneVars, narrativeVars, forensicVars, strategyVars, graphVars>>
    /\ UNCHANGED <<extractionVars, threadVars>>
    /\ UNCHANGED <<restartVars, dispatchVars, verifyVars, masterVars, scoreVars>>

(***************************************************************************)
(* Specifications.                                                         *)
(***************************************************************************)
\* analyze_language_tone applied to every body.
ToneSpecInit ==
    /\ ToneInit /\ NarrativeIdle /\ ForensicIdle /\ StrategyIdle /\ GraphInit
    /\ ExtractionIdle /\ ThreadsIdle /\ MonitorIdle
    /\ RestartIdle /\ DispatchIdle /\ VerifyIdle /\ MasterIdle /\ ScoreIdle

SpecTone == ToneSpecInit /\ [][AnalyzeLanguageTone]_vars

\* build_causal_relationship_map applied to every timeline.
CausalSpecInit ==
    /\ ToneIdle /\ CausalInit /\ ForensicIdle /\ StrategyIdle /\ GraphInit
    /\ ExtractionIdle /\ ThreadsIdle /\ MonitorIdle
    /\ RestartIdle /\ DispatchIdle /\ VerifyIdle /\ MasterIdle /\ ScoreIdle

SpecCausal == CausalSpecInit /\ [][BuildCausalRelationshipMap]_vars

\* The two timeline constructions: the narrative engine's (followed by the
\* causal map) and the forensic extractor's, each on its own object.
TimelineInit ==
    /\ ToneIdle
    /\ ExtractionIdle
    /\ RestartIdle /\ DispatchIdle /\ VerifyIdle /\ MasterIdle /\ ScoreIdle
    /\ ThreadsIdle
    /\ MonitorIdle
    /\ StrategyIdle
    /\ GraphInit
    /\ \/ NarrativeInit /\ ForensicIdle
       \/ NarrativeIdle /\ ForensicInit

TimelineNext ==
    \/ ExtractComprehensiveTimeline
    \/ BuildCausalRelationshipMap
    \/ CreateForensicTimeline

SpecTimeline == TimelineInit /\ [][TimelineNext]_vars

\* The strategy simulator on every relationship input.
StrategyNext ==
    \/ CalculateSuccessProbability
    \/ SimulateLegalStrategies

StrategySpecInit ==
    /\ ToneIdle /\ NarrativeIdle /\ ForensicIdle /\ StrategyInit /\ GraphInit
    /\ ExtractionIdle /\ ThreadsIdle /\ MonitorIdle
    /\ RestartIdle /\ DispatchIdle /\ VerifyIdle /\ MasterIdle /\ ScoreIdle

SpecStrategy == StrategySpecInit /\ [][StrategyNext]_vars

\* A relationship mapper over its lifetime.
GraphSpecInit ==
    /\ ToneIdle /\ NarrativeIdle /\ ForensicIdle /\ StrategyIdle /\ GraphInit
    /\ ExtractionIdle /\ ThreadsIdle /\ MonitorIdle
    /\ RestartIdle /\ DispatchIdle /\ VerifyIdle /\ MasterIdle /\ ScoreIdle

SpecGraph == GraphSpecInit /\ [][MapRelationshipNetworks]_vars

\* A batch of process_single_eml calls on a fresh extractor, then the
\* forensic timeline of generate_forensic_analysis.
ExtractionSpecInit ==
    /\ ToneIdle /\ NarrativeIdle /\ ForensicIdle /\ StrategyIdle /\ GraphInit
    /\ ExtractionIdle /\ ThreadsIdle /\ MonitorIdle
    /\ RestartIdle /\ DispatchIdle /\ VerifyIdle /\ MasterIdle /\ ScoreIdle

ExtractionNext ==
    \/ ProcessSingleEml
    \/ CreateForensicTimeline

SpecExtraction == ExtractionSpecInit /\ [][ExtractionNext]_vars

\* identify_narrative_threads applied to every timeline.
ThreadsSpecInit ==
    /\ ToneIdle /\ ThreadsInit /\ ForensicIdle /\ StrategyIdle /\ GraphInit
    /\ ExtractionIdle /\ MonitorIdle
    /\ RestartIdle /\ DispatchIdle /\ VerifyIdle /\ MasterIdle /\ ScoreIdle

SpecThreads == ThreadsSpecInit /\ [][IdentifyNarrativeThreads]_vars

\* The narrative engine run twice on the same sources.
RerunSpecInit ==
    /\ ToneIdle /\ RerunInit /\ ForensicIdle /\ StrategyIdle /\ GraphInit
    /\ ExtractionIdle /\ MonitorIdle
    /\ RestartIdle /\ DispatchIdle /\ VerifyIdle /\ MasterIdle /\ ScoreIdle

RerunNext ==
    \/ ExtractComprehensiveTimeline
    \/ IdentifyNarrativeThreads
    \/ ReconstructAgain

SpecRerun == RerunSpecInit /\ [][RerunNext]_vars

\* The monitoring system while it stays running: main never clears the
\* flag.  A started thread that can take a step eventually takes one:
\* sleeps end, and the checks and handlers return.
MonitorSpecInit ==
    /\ ToneIdle /\ NarrativeIdle /\ ForensicIdle /\ StrategyIdle /\ GraphInit
    /\ ExtractionIdle /\ ThreadsIdle /\ MonitorConstructed
    /\ RestartIdle /\ DispatchIdle /\ VerifyIdle /\ MasterIdle /\ ScoreIdle
    /\ source_items = MaxAlerts

MonitorNext ==
    \/ StartComprehensiveMonitoring
    \/ \E task \in MonitoringTasks : Poll(task) \/ PutAlert(task)
    \/ ProcessAlert

SpecMonitor ==
    /\ MonitorSpecInit
    /\ [][MonitorNext]_vars
    /\ \A task \in MonitoringTasks : WF_vars(Poll(task) \/ PutAlert(task))
    /\ WF_vars(ProcessAlert)

\* The monitoring system from construction to the end of its threads,
\* main clearing the flag at any moment after the start.
ShutdownSpecInit ==
    /\ ToneIdle /\ NarrativeIdle /\ ForensicIdle /\ StrategyIdle /\ GraphInit
    /\ ExtractionIdle /\ ThreadsIdle /\ MonitorConstructed
    /\ RestartIdle /\ DispatchIdle /\ VerifyIdle /\ MasterIdle /\ ScoreIdle
    /\ source_items = MaxShutdownItems

ShutdownNext ==
    \/ StartComprehensiveMonitoring
    \/ \E task \in MonitoringTasks : MonitorTask(task)
    \/ ProcessAlerts
    \/ StopMonitoring

SpecShutdown ==
    /\ ShutdownSpecInit
    /\ [][ShutdownNext]_vars
    /\ \A task \in MonitoringTasks : WF_vars(MonitorTask(task))
    /\ WF_vars(ProcessAlerts)

\* A monitoring system that is started, stopped and started again.
RestartSpecInit ==
    /\ ToneIdle /\ NarrativeIdle /\ ForensicIdle /\ StrategyIdle /\ GraphInit
    /\ ExtractionIdle /\ ThreadsIdle /\ MonitorConstructed
    /\ source_items = MaxShutdownItems
    /\ RestartIdle /\ DispatchIdle /\ VerifyIdle /\ MasterIdle /\ ScoreIdle

RestartNext ==
    \/ ActivateMonitoring
    \/ MonitorPuts
    \/ \E k \in 1..Len(alert_threads) : ConsumerTakes(k)
    \/ \E k \in 1..Len(alert_threads) : ConsumerExits(k)
    \/ StopMonitoring

SpecRestart == RestartSpecInit /\ [][RestartNext]_vars

\* execute_alert_action called with alerts of every type.
DispatchSpecInit ==
    /\ ToneIdle /\ NarrativeIdle /\ ForensicIdle /\ StrategyIdle /\ GraphInit
    /\ ExtractionIdle /\ ThreadsIdle /\ MonitorIdle
    /\ RestartIdle /\ DispatchIdle /\ VerifyIdle /\ MasterIdle /\ ScoreIdle

SpecDispatch == DispatchSpecInit /\ [][ExecuteAlertAction]_vars

\* The two users of the confidence score on every text.
VerifySpecInit ==
    /\ ToneIdle /\ NarrativeIdle /\ ForensicIdle /\ StrategyIdle /\ GraphInit
    /\ ExtractionIdle /\ ThreadsIdle /\ MonitorIdle
    /\ RestartIdle /\ DispatchIdle /\ VerifyInit /\ MasterIdle /\ ScoreIdle

VerifyNext ==
    \/ AnalyzeWithVerification
    \/ VerifyAllLegalInformation

SpecVerify == VerifySpecInit /\ [][VerifyNext]_vars

\* Runs of execute_complete_analysis on one MasterIntelligenceSystem.
MasterSpecInit ==
    /\ ToneIdle /\ NarrativeIdle /\ ForensicIdle /\ StrategyIdle /\ GraphInit
    /\ ExtractionIdle /\ ThreadsIdle /\ MonitorIdle
    /\ RestartIdle /\ DispatchIdle /\ VerifyIdle /\ MasterIdle /\ ScoreIdle

SpecMaster == MasterSpecInit /\ [][ExecuteCompleteAnalysis]_vars

\* jeff_psychological_analysis on every content.
ScoreSpecInit ==
    /\ ToneIdle /\ NarrativeIdle /\ ForensicIdle /\ StrategyIdle /\ GraphInit
    /\ ExtractionIdle /\ ThreadsIdle /\ MonitorIdle
    /\ RestartIdle /\ DispatchIdle /\ VerifyIdle /\ MasterIdle /\ ScoreInit

SpecScore == ScoreSpecInit /\ [][JeffPsychologicalAnalysis]_vars

\* The running monitoring system with external checks that may raise.  A
\* check may raise any number of times; sleeps end and calls that return
\* do return, so a thread that can take a step of its own eventually does.
FaultySpecInit ==
    /\ ToneIdle /\ NarrativeIdle /\ ForensicIdle /\ StrategyIdle /\ GraphInit
    /\ ExtractionIdle /\ ThreadsIdle /\ MonitorConstructed
    /\ RestartIdle /\ DispatchIdle /\ VerifyIdle /\ MasterIdle /\ ScoreIdle
    /\ source_items = MaxShutdownItems

FaultyNext ==
    \/ StartComprehensiveMonitoring
    \/ \E task \in MonitoringTasks : Poll(task)
    \/ \E task \in MonitoringTasks : PutAlert(task)
    \/ \E task \in MonitoringTasks : CheckRaises(task)
    \/ \E task \in MonitoringTasks : ErrorWaitEnds(task)
    \/ ProcessAlert

SpecFaulty ==
    /\ FaultySpecInit
    /\ [][FaultyNext]_vars
    /\ \A task \in MonitoringTasks :
           WF_vars(Poll(task) \/ PutAlert(task) \/ ErrorWaitEnds(task))
    /\ WF_vars(ProcessAlert)

\* Calls of map_relationship_networks on one mapper, with new inputs or
\* with the inputs of the call before.
RemapNext ==
    \/ MapRelationshipNetworks
    \/ MapRelationshipNetworksAgain

SpecRemap == GraphSpecInit /\ [][RemapNext]_vars

(***************************************************************************)
(* Claims.                                                                 *)
(***************************************************************************)
\* The classification the tone rule prescribes for a triple of hit counts.
ToneOfCounts(a, p, r) ==
    CASE a > Max(p, r)                        -> "aggressive"
      [] a <= Max(p, r) /\ p > r              -> "passive"
      [] a <= Max(p, r) /\ p <= r /\ r > 0    -> "professional"
      [] OTHER                                -> "neutral"

\* C1: for every body, the tone returned by analyze_language_tone is the one
\* the rule assigns to the body's three keyword-hit counts (aggressive if
\* a > max(p, r), else passive if p > r, else professional if r > 0, else
\* neutral), so it depends on the body only through the counts.
C1_ToneIsFunctionOfCounts ==
    tone # NoResult =>
        tone = ToneOfCounts(aggressive_score(content),
                            passive_score(content),
                            professional_score(content))

\* C1 witness: a body with two aggressive hits against one passive hit has
\* been classified aggressive.
C1_Witness ==
    /\ tone = "aggressive"
    /\ aggressive_score(content) = 2
    /\ passive_score(content) = 1
    /\ professional_score(content) = 0

\* C2 (as claimed): equal positive aggressive and passive counts with no
\* professional hit are classified aggressive.
C2_TieFavoursAggressive ==
    ( /\ tone # NoResult
      /\ aggressive_score(content) = passive_score(content)
      /\ aggressive_score(content) > 0
      /\ professional_score(content) = 0 ) => tone = "aggressive"

\* C2 (amended): equal positive aggressive and passive counts with no
\* professional hit are classified passive, because aggressive needs a
\* strictly greater count.
C2_TieIsPassive ==
    ( /\ tone # NoResult
      /\ aggressive_score(content) = passive_score(content)
      /\ aggressive_score(content) > 0
      /\ professional_score(content) = 0 ) => tone = "passive"

\* C2 witness: a body with 2 aggressive, 2 passive and 0 professional hits
\* has been classified.
C2_Witness ==
    /\ tone # NoResult
    /\ aggressive_score(content) = 2
    /\ passive_score(content) = 2
    /\ professional_score(content) = 0

\* The position of an event of the timeline (events are distinct objects,
\* told apart by the input they were made from).
PositionOf(tl, ev) == CHOOSE i \in 1..Len(tl) : tl[i].src = ev.src

LinksOfMap == { causal_map.links[k] : k \in 1..Len(causal_map.links) }

\* C3: every link of the causal map goes from an earlier position to a later
\* one at most 5 positions away, whatever strengths the heuristic returns.
C3_CausalWindowBound ==
    \A link \in LinksOfMap :
        LET j == PositionOf(timeline.events, link.cause_event)
            i == PositionOf(timeline.events, link.effect_event)
        IN  j < i /\ i - j <= 5

\* C3 witness: in a timeline of at least 7 events the seventh event is
\* linked from the second (5 positions back) and not from the first.
C3_Witness ==
    /\ causal_map.status = "ok"
    /\ Len(timeline.events) >= 7
    /\ \E link \in LinksOfMap :
          /\ PositionOf(timeline.events, link.cause_event) = 2
          /\ PositionOf(timeline.events, link.effect_event) = 7
    /\ \A f \in DOMAIN causal_heuristic : causal_heuristic[f] > CausalThreshold

\* C4 (as claimed): in every causal link the effect's timestamp is strictly
\* later than the cause's and the two are different events.
C4_EffectStrictlyLater ==
    \A link \in LinksOfMap :
        /\ link.effect_event.timestamp.t > link.cause_event.timestamp.t
        /\ link.effect_event.src # link.cause_event.src

\* C4 (amended): in every causal link over an extracted timeline the
\* effect's timestamp is later than or equal to the cause's, the effect
\* stands after the cause in the timeline, and the two are different
\* events.
C4_EffectNotEarlier ==
    \A link \in LinksOfMap :
        /\ link.effect_event.timestamp.kind = link.cause_event.timestamp.kind
        /\ link.effect_event.timestamp.t >= link.cause_event.timestamp.t
        /\ PositionOf(timeline.events, link.effect_event)
             > PositionOf(timeline.events, link.cause_event)
        /\ link.effect_event.src # link.cause_event.src

\* C4 witness: the causal map of an extracted timeline (emails given out of
\* order) holds a link between two events with the same timestamp and a
\* link whose effect is strictly later.
C4_Witness ==
    /\ causal_map.status = "ok"
    /\ Len(emails) >= 2
    /\ emails[1].timestamp.t > emails[2].timestamp.t
    /\ \E link \in LinksOfMap :
          link.effect_event.timestamp.t = link.cause_event.timestamp.t
    /\ \E link \in LinksOfMap :
          link.effect_event.timestamp.t > link.cause_event.timestamp.t

\* The input position of a narrative event: emails first, then documents.
NarrativeInputPosition(ev) ==
    IF ev.src[1] = "email" THEN ev.src[2] ELSE Len(emails) + ev.src[2]

\* The timestamp an undated forensic entry is ordered by: the earliest.
OrderingTime(ts) == IF ts.kind = "none" THEN 0 ELSE ts.t

\* C5 for extract_comprehensive_timeline: the returned events are the
\* input events, each once, with their input timestamps, in non-decreasing
\* timestamp order, equal timestamps in input order.
C5_NarrativeStableSorted ==
    timeline.status = "ok" =>
        LET out == timeline.events
            n   == Len(emails) + Len(documents)
        IN  /\ Len(out) = n
            /\ { NarrativeInputPosition(out[p]) : p \in 1..n } = 1..n
            /\ \A p \in 1..n :
                  /\ out[p].src[1] = "email" =>
                        out[p].timestamp = emails[out[p].src[2]].timestamp
                  /\ out[p].src[1] = "document" =>
                        \/ out[p].timestamp = documents[out[p].src[2]].date
                        \/ /\ documents[out[p].src[2]].date.kind = "absent"
                           /\ out[p].timestamp \in { Naive(t) : t \in NowTimes }
            /\ \A p, q \in 1..n : p < q =>
                  /\ out[p].timestamp.t <= out[q].timestamp.t
                  /\ out[p].timestamp.t = out[q].timestamp.t =>
                        NarrativeInputPosition(out[p]) < NarrativeInputPosition(out[q])

\* C5 for create_forensic_timeline: the returned events are the entries of
\* forensic_timeline, each once, in non-decreasing timestamp order (an
\* undated entry counting as earliest), equal timestamps in input order.
C5_ForensicStableSorted ==
    timeline_analysis.status = "ok" =>
        LET out == timeline_analysis.events
            n   == Len(forensic_timeline)
        IN  /\ Len(out) = n
            /\ timeline_analysis.total_events = n
            /\ { out[p].metadata_hash : p \in 1..n } = 1..n
            /\ \A p \in 1..n : out[p] = forensic_timeline[out[p].metadata_hash]
            /\ \A p, q \in 1..n : p < q =>
                  /\ OrderingTime(out[p].timestamp) <= OrderingTime(out[q].timestamp)
                  /\ OrderingTime(out[p].timestamp) = OrderingTime(out[q].timestamp) =>
                        out[p].metadata_hash < out[q].metadata_hash

\* C5: whenever extract_comprehensive_timeline or create_forensic_timeline
\* returns, the returned sequence is a permutation of the input events in
\* non-decreasing timestamp order with equal timestamps in input order.
C5_TimelineStableSorted == C5_NarrativeStableSorted /\ C5_ForensicStableSorted

\* C5 witness: a timeline of two emails and a document has been returned in
\* which the second email was moved to the front and the first email and
\* the document, which carry the same timestamp, kept their input order.
C5_Witness ==
    /\ timeline.status = "ok"
    /\ Len(timeline.events) = 3
    /\ timeline.events[1].src = <<"email", 2>>
    /\ timeline.events[2].src = <<"email", 1>>
    /\ timeline.events[3].src = <<"document", 1>>
    /\ timeline.events[2].timestamp = timeline.events[3].timestamp

\* Undated inputs of the two timeline constructions.
UndatedEmails == { i \in 1..Len(emails) : emails[i].timestamp.kind = "none" }

UndatedEntries ==
    { i \in 1..Len(forensic_timeline) : forensic_timeline[i].timestamp.kind = "none" }

\* C6: timeline construction never fails on undated records: it completes,
\* keeps every undated record and puts the undated records before all dated
\* ones.
C6_UndatedNeverFail ==
    /\ timeline.status \in { NoResult, "ok" }
    /\ timeline_analysis.status \in { NoResult, "ok" }
    /\ timeline.status = "ok" =>
          /\ \A i \in UndatedEmails :
                \E p \in 1..Len(timeline.events) : timeline.events[p].src = <<"email", i>>
          /\ \A p, q \in 1..Len(timeline.events) :
                ( /\ timeline.events[p].timestamp.kind # "none"
                  /\ timeline.events[q].timestamp.kind = "none" ) => q < p
    /\ timeline_analysis.status = "ok" =>
          /\ \A i \in UndatedEntries :
                \E p \in 1..Len(timeline_analysis.events) :
                    timeline_analysis.events[p].metadata_hash = i
          /\ \A p, q \in 1..Len(timeline_analysis.events) :
                ( /\ timeline_analysis.events[p].timestamp.kind # "none"
                  /\ timeline_analysis.events[q].timestamp.kind = "none" ) => q < p

CatalogPosition(name) == CHOOSE i \in 1..Len(strategies) : strategies[i] = name

CommCount(u, v) ==
    Cardinality({ k \in 1..Len(comm_data) :
                    comm_data[k].sender = u /\ comm_data[k].recipient = v })

PartyNames == { "a", "b" }

C10_PowerDynamicsNeverRaises ==
    network_analysis.status \in { NoResult, "ok" }

\* The calls of the batch that processed their message, in call order, and
\* the calls that did not.
CallSucceeded(call) == call.outcome = "ok"

CallFailed(call) == call.outcome # "ok"

GoodCalls == SelectSeq(eml_calls, CallSucceeded)

BadCalls == SelectSeq(eml_calls, CallFailed)

HashOfFile(file) == sha256(file.msg)

\* The files of the directory that cannot be processed whatever the
\* database does: unreadable, or rejected by the metadata extraction.
BadFiles ==
    { file \in EmlFiles :
        \/ ~file.readable
        \/ extract_complete_email_metadata(file.msg, 0).status # "ok" }

EntriesOf(msg) ==
    { k \in 1..Len(extracted_metadata) :
        extracted_metadata[k].metadata.message_hash = sha256(msg) }

\* C12: a readable message whose Date header is unparseable or whose
\* Message-ID is missing still yields a record (the database accepting the
\* write), with date_parsed null, respectively a derived identifier.
C12_BadHeaderDegrades ==
    \A c \in 1..Len(eml_calls) :
        LET call == eml_calls[c]
            msg == call.file.msg
        IN  ( /\ call.file.readable
              /\ call.db_ok
              /\ (msg.date.kind = "invalid" \/ msg.message_id = "") )
            => /\ call.outcome = "ok"
               /\ \E k \in EntriesOf(msg) :
                     LET metadata == extracted_metadata[k].metadata
                     IN  /\ msg.date.kind = "invalid"
                            => metadata.date_parsed = NoneTS
                         /\ msg.message_id = "" => metadata.message_id # ""

\* C13: two extractions of the same raw message give the same message_hash
\* and the same value for every metadata field but extraction_timestamp.
C13_ExtractionIdempotent ==
    \A j, k \in 1..Len(GoodCalls) :
        GoodCalls[j].file.msg = GoodCalls[k].file.msg
        => /\ extracted_metadata[j].metadata.message_hash
                = extracted_metadata[k].metadata.message_hash
           /\ [extracted_metadata[j].metadata EXCEPT !.extraction_timestamp = 0]
                = [extracted_metadata[k].metadata EXCEPT !.extraction_timestamp = 0]

\* C13 witness: the same message has been extracted twice, at different
\* times.
C13_Witness ==
    \E j, k \in 1..Len(GoodCalls) :
        /\ j < k
        /\ GoodCalls[j].file.msg = GoodCalls[k].file.msg
        /\ extracted_metadata[j].metadata.extraction_timestamp
             # extracted_metadata[k].metadata.extraction_timestamp

\* C14: processing a message again never creates a second entry: at most
\* one entry per message hash in extracted_metadata, in forensic_timeline
\* and in email_metadata, and at most one row per attachment of a message
\* in attachment_metadata.
C14_NoDuplicateEntries ==
    /\ \A j, k \in 1..Len(extracted_metadata) :
          extracted_metadata[j].metadata.message_hash
             = extracted_metadata[k].metadata.message_hash => j = k
    /\ \A j, k \in 1..Len(forensic_timeline) :
          forensic_timeline[j].metadata_hash = forensic_timeline[k].metadata_hash
             => j = k
    /\ \A r1, r2 \in email_metadata : r1.message_hash = r2.message_hash => r1 = r2
    /\ \A r1, r2 \in attachment_metadata :
          (r1.filename = r2.filename /\ r1.content_hash = r2.content_hash)
             => r1 = r2

\* C15: storing a message never replaces or removes the row of a
\* different message: every message that has been processed has its row in
\* email_metadata, messages without a Message-ID included.
C15_OtherRowsKept ==
    \A k \in 1..Len(GoodCalls) :
        \E row \in email_metadata : row.message_hash = HashOfFile(GoodCalls[k].file)

\* The threads an event is a member of.
ThreadsHolding(event) ==
    { k \in 1..Len(narrative_threads.threads) :
        \E p \in 1..Len(narrative_threads.threads[k].events) :
            narrative_threads.threads[k].events[p].src = event.src }

ParticipantsOf(events) ==
    UNION { { events[p].participants[i] : i \in 1..Len(events[p].participants) } :
            p \in 1..Len(events) }

\* C16: identify_narrative_threads returns, for every timeline, threads in
\* which every event is a member of exactly one thread, each thread's
\* start_date is the least and its end_date the greatest timestamp of its
\* members, and its participants are the union of its members'.
C16_ThreadsPartitionTimeline ==
    /\ narrative_threads.status \in { NoResult, "ok" }
    /\ narrative_threads.status = "ok" =>
          /\ \A p \in 1..Len(timeline.events) :
                Cardinality(ThreadsHolding(timeline.events[p])) = 1
          /\ \A k \in 1..Len(narrative_threads.threads) :
                LET thread == narrative_threads.threads[k]
                IN  /\ \A p \in 1..Len(thread.events) :
                          /\ thread.start_date.t <= thread.events[p].timestamp.t
                          /\ thread.end_date.t >= thread.events[p].timestamp.t
                    /\ \E p \in 1..Len(thread.events) :
                          thread.start_date = thread.events[p].timestamp
                    /\ \E p \in 1..Len(thread.events) :
                          thread.end_date = thread.events[p].timestamp
                    /\ thread.participants = ParticipantsOf(thread.events)

\* C17: two runs of extract_comprehensive_timeline and
\* identify_narrative_threads on the same emails and documents give the
\* same event order, the same timestamps and the same threads.
C17_RerunSameTimeline ==
    ( /\ previous_run.status = "done"
      /\ narrative_threads.status # NoResult )
    => /\ timeline = previous_run.timeline
       /\ narrative_threads = previous_run.threads

\* The numbers of one monitoring thread's alerts in a sequence of alerts.
NumbersOf(task, alerts) ==
    LET own == SelectSeq(alerts, LAMBDA alert : alert.type = task)
    IN  [i \in 1..Len(own) |-> own[i].n]

\* C18: under every interleaving of the six monitoring threads and the
\* consumer, the alerts of each monitoring thread leave alert_queue in the
\* order in which the thread put them, and none leaves it twice: the
\* thread's alerts taken so far, followed by those still queued, are its
\* first, second, ... up to its latest, each once.
C18_FifoPerProducer ==
    \A task \in MonitoringTasks :
        NumbersOf(task, taken \o alert_queue) = [i \in 1..put_count[task] |-> i]

\* Two alerts of one thread were taken, with another thread's between.
C18_Witness ==
    \E i, j, k \in 1..Len(taken) :
        /\ i < j /\ j < k
        /\ taken[i].type = taken[k].type
        /\ taken[i].type # taken[j].type
        /\ taken[i].n < taken[k].n

IsStored(alert) == \E i \in 1..Len(monitoring_alerts) : monitoring_alerts[i] = alert

IsQueued(task, n) ==
    \E i \in 1..Len(alert_queue) :
        alert_queue[i].type = task /\ alert_queue[i].n = n

IsSettled(task, n) ==
    \E i \in 1..Len(taken) :
        /\ taken[i].type = task /\ taken[i].n = n
        /\ IsStored(taken[i])
        /\ determine_action_required(taken[i]) => taken[i] \in dispatched

\* C19: while monitoring stays running, every alert on alert_queue is
\* eventually taken by process_alerts and stored, and dispatched to the
\* handler of its type when action is required; at no moment has an alert
\* been taken that is not stored.
C19_EveryAlertStored ==
    /\ [](\A i \in 1..Len(taken) : IsStored(taken[i]))
    /\ \A task \in MonitoringTasks : \A n \in 1..MaxAlerts :
          IsQueued(task, n) ~> IsSettled(task, n)

IsStarted(thread) == pc[thread] # "unstarted"

\* C20: once is_monitoring is False no monitoring thread passes its loop
\* boundary into another check and the consumer takes no further alert,
\* and eventually every thread started by start_comprehensive_monitoring
\* has terminated.
C20_StopEndsThreads ==
    /\ [][ ~is_monitoring =>
              /\ taken' = taken
              /\ source_items' = source_items
              /\ \A thread \in MonitoringThreads :
                    pc[thread] = "loop" => pc'[thread] \in { "loop", "done" } ]_vars
    /\ ( ~is_monitoring /\ \E thread \in MonitoringThreads : IsStarted(thread) )
         ~> ( \A thread \in MonitoringThreads : pc[thread] = "done" )

\* Every thread has terminated, one of them after putting the alert of a
\* check it had begun before the flag was cleared.
C20_Witness ==
    /\ ~is_monitoring
    /\ \A thread \in MonitoringThreads : pc[thread] = "done"
    /\ alert_queue # <<>>

\* The process_alerts threads that are inside their while loop.
LiveConsumers == { k \in 1..Len(alert_threads) : alert_threads[k] = "loop" }

\* C21: after any sequence of start_comprehensive_monitoring /
\* activate_monitoring calls and stops, at most one thread is executing
\* process_alerts against the system's alert_queue.
C21_SingleConsumer == Cardinality(LiveConsumers) <= 1

\* C26: every alert type a monitoring thread can put has a handler in the
\* dispatch table of execute_alert_action, which calls it; an alert whose
\* type has no handler is ignored without raising.
C26_EveryTypeDispatched ==
    /\ \A type \in MonitoringTasks : actions(type) # NoHandler
    /\ \A i \in 1..Len(action_calls) :
          action_calls[i].outcome =
              IF action_calls[i].type \in MonitoringTasks THEN "handled" ELSE "ignored"

\* The confidence of a text is below 80: fewer than four fifths of its
\* references are verified, or it has none.
Below80(references) ==
    \/ references = <<>>
    \/ 100 * VerifiedCount(references) < 80 * Len(references)

\* C22: a result with confidence below 80 is flagged (analysis_approved
\* false and academic_integrity 'REQUIRES_REVIEW'; not counted among the
\* verified pieces), a result with confidence 80 or more is not flagged,
\* and both methods return whatever the confidence is.
C22_LowConfidenceFlagged ==
    /\ analysis.status \in { NoResult, "ok" }
    /\ analysis.status = "ok" =>
          /\ analysis.analysis_approved = ~Below80(case_text)
          /\ analysis.academic_integrity =
                IF Below80(case_text) THEN "REQUIRES_REVIEW" ELSE "COMPLIANT"
    /\ overall_verification.status \in { NoResult, "ok" }
    /\ overall_verification.status = "ok" =>
          overall_verification.verified_pieces =
              Cardinality({ i \in 1..Len(intelligence_data) :
                              /\ intelligence_data[i].substantial
                              /\ ~Below80(intelligence_data[i].references) })

\* A text with verified and unverified references below the threshold was
\* analysed, and a batch with a low piece was verified.
C22_Witness ==
    /\ analysis.status = "ok"
    /\ VerifiedCount(case_text) > 0
    /\ analysis.academic_integrity = "REQUIRES_REVIEW"
    /\ overall_verification.status = "ok"
    /\ overall_verification.verified_pieces < overall_verification.total_content_pieces


C24_ComplexityCapped ==
    complete_intelligence.status = "ok" =>
        LET a == complete_intelligence.master_synthesis
        IN  /\ a.complexity_score \in 0..10
            /\ a.complexity_score = Min(10, WeightedSum(a.complexity_factors))

\* A run has produced an assessment whose weighted sum exceeds the cap.
C24_Witness ==
    /\ complete_intelligence.status = "ok"
    /\ WeightedSum(complete_intelligence.master_synthesis.complexity_factors) > 10
    /\ complete_intelligence.master_synthesis.complexity_score = 10

\* C27: the synthesis stored by a run is derived from the outputs of the
\* same run: its number_of_parties equals the number of correspondents in
\* the gmail_intelligence stored with it.
C27_SynthesisOfSameRun ==
    complete_intelligence.status = "ok" =>
        complete_intelligence.master_synthesis.complexity_factors.number_of_parties
            = Cardinality(complete_intelligence.gmail_intelligence.email_data)


\* The number of places of text at which the keyword starts.
Occurrences(keyword, text) ==
    Cardinality({ i \in 0..(Len(text) - Len(keyword)) :
                    SubSeq(text, i + 1, i + Len(keyword)) = keyword })

RECURSIVE TotalOccurrences(_, _)
TotalOccurrences(words, text) ==
    IF words = <<>> THEN 0
    ELSE Occurrences(Head(words), text) + TotalOccurrences(Tail(words), text)

\* The three scores of a content, in the order urgency, authority, negative.
ScoresOf(text) ==
    LET a == jeff_psychological_analysis(text)
    IN  <<a.urgency_score, a.authority_assertions, a.negative_tone_score>>

\* Scores are never negative, and appending a word never lowers one.
C25_ScoresMonotone ==
    psychological.status = "ok" =>
        /\ \A i \in 1..3 : ScoresOf(msg_content)[i] >= 0
        /\ \A w \in PsychVocabulary : \A i \in 1..3 :
               ScoresOf(msg_content \o <<" ">> \o w)[i] >= ScoresOf(msg_content)[i]

\* C25: each behavioural score of an analysed message (urgency,
\* authority-assertion, negative-tone) equals the number of occurrences of
\* that indicator's keywords in the lower-cased content; no score is
\* negative, and appending text to the content never lowers a score.
C25_ScoresCountOccurrences ==
    psychological.status = "ok" =>
        /\ psychological.urgency_score =
               TotalOccurrences(urgency_words, Lower(msg_content))
        /\ psychological.authority_assertions =
               TotalOccurrences(authority_patterns, Lower(msg_content))
        /\ psychological.negative_tone_score =
               TotalOccurrences(negative_words, Lower(msg_content))
        /\ psychological.urgency_score >= 0
        /\ psychological.authority_assertions >= 0
        /\ psychological.negative_tone_score >= 0
        /\ \A w \in PsychVocabulary : \A i \in 1..3 :
               ScoresOf(msg_content \o <<" ">> \o w)[i] >= ScoresOf(msg_content)[i]


\* A step in which the check of the task raises: the task leaves its loop
\* boundary without going on to put alerts.
IsErrorStep(task) ==
    /\ pc[task] = "loop"
    /\ pc'[task] \notin {"loop", "put"}

\* C28: a step in which a monitoring task's check raises takes that task
\* to its error wait and changes nothing else - not the queue, not the
\* stored alerts, not the position of any other thread; the error wait is
\* left only for the loop boundary, with the flag still set, where the
\* task checks again; no thread ever terminates while the system runs; and
\* no task stays in its error wait forever.
C28_CheckErrorIsContained ==
    /\ [][\A task \in MonitoringTasks :
             /\ IsErrorStep(task) =>
                   /\ pc'[task] = "except"
                   /\ alert_queue' = alert_queue
                   /\ monitoring_alerts' = monitoring_alerts
                   /\ is_monitoring' = is_monitoring
                   /\ \A t \in MonitoringThreads \ {task} : pc'[t] = pc[t]
             /\ pc[task] = "except" /\ pc'[task] # "except" =>
                   pc'[task] = "loop" /\ is_monitoring']_vars
    /\ [](\A t \in MonitoringThreads : pc[t] # "done")
    /\ \A task \in MonitoringTasks : []<>(pc[task] # "except")

\* A task is in its error wait while an alert of another task is on the
\* queue and the consumer is in its loop.
C28_Witness ==
    \E task \in MonitoringTasks :
        /\ pc[task] = "except"
        /\ alert_queue # <<>>
        /\ \A i \in 1..Len(alert_queue) : alert_queue[i].type # task
        /\ pc[AlertProcessor] = "loop"

\* C29: after build_relationship_graph, every edge the communication loop
\* left in the graph is still there with a weight that is not lower: the
\* legal-document loop never lowers a weight accumulated from
\* communications.
C29_LegalPassKeepsWeight ==
    calls >= 1 =>
        \A e \in comm_pass_graph.edges :
            \E f \in relationship_graph.edges :
                f.key = e.key /\ f.weight >= e.weight

\* C30: a call of map_relationship_networks repeated on the same mapper with
\* the same inputs yields the graph the call before it yielded: the same
\* nodes and the same edges with the same weights.
C30_RepeatedCallSameGraph ==
    previous_call.status = "ok" => relationship_graph = previous_call.graph

=============================================================================
